---- MODULE Spec2Model ----
(***************************************************************************)
(* Plugify: the plugin manager (discovery, module load, plugin ordering,   *)
(* plugin lifecycle, update tick, termination).                            *)
(*                                                                         *)
(* Plugin's state setters, the ModuleState enumeration and the manager's   *)
(* fields follow the headers (core/plugin.h, plugify/module.h,             *)
(* core/plugin_manager.hpp); the steps of PluginManager's methods follow   *)
(* section 4.F of the specification.                                       *)
(*                                                                         *)
(* The package manager (local and remote discovery, dependency            *)
(* resolution, Request) follows core/package_manager.cpp; the WinHTTP     *)
(* downloader follows utils/http_downloader_winhttp.cpp, and the poll of   *)
(* its base class follows sections 4.B and 5 of the specification.         *)
(***************************************************************************)
EXTENDS Integers, Sequences, FiniteSets, TLC

(* ------------------------------ bounds --------------------------------- *)
MaxPlugins == 3      \* plugin names are 1..MaxPlugins
MaxModules == 2      \* languages (and module names) are 1..MaxModules
MaxDeps    == 2      \* dependency entries over all discovered descriptors
MaxUpdates == 1      \* Update ticks between Initialize and Terminate
LiveMaxPlugins == 2  \* plugins of the local sets of the fair specification
MaxNames    == 4     \* package names and language names are the strings 1..MaxNames
MaxVersion  == 2     \* package versions are 1..MaxVersion
MaxFiles    == 3     \* descriptor files under baseDir
MaxRequests == 2     \* Request calls after Initialize
MaxDownloads == 2    \* requests handed to the downloader
MaxChunks == 1       \* reads of body data per request
MaxCnt == 3          \* entries of a container handed to RemoveDuplicates
MaxArchive == 2      \* entries of an archive handed to ExtractPackage
MaxCallbacks == 2    \* JitCallback objects
MaxArgs == 2         \* arguments of a function signature
MaxValue == 2        \* argument and return values are 1..MaxValue

PluginNames == 1..MaxPlugins
Languages   == 1..MaxModules

(* --------------------------- enumerations ------------------------------ *)
\* enum class ModuleState { NotLoaded, Error, Loaded, Unknown }
ModuleState == {"NotLoaded", "Error", "Loaded", "Unknown"}
\* Plugin (runtime object): state \in {NotLoaded, Error, Loaded, Running, Terminating}
PluginState == {"NotLoaded", "Error", "Loaded", "Running", "Terminating"}

NoModule == 0                       \* std::optional<...Module> without a value
NewPluginState == "NotLoaded"       \* PluginState _state{ PluginState::NotLoaded }
NoError  == <<"", <<"none", 0>>>>   \* empty error string

VARIABLES
    localPackages, \* the package manager's local set, consumed by discovery
    pc,            \* position of the manager inside Initialize / Update / Terminate
    descriptor,    \* plugin name -> [languageModule, dependencies]
    allPlugins,    \* PluginManager::_allPlugins (names, in list order)
    allModules,    \* PluginManager::_allModules (ids = languages, in discovery order)
    pluginState,   \* Plugin::_state
    pluginError,   \* Plugin::_error
    pluginModule,  \* Plugin::_module
    moduleState,   \* Module state
    moduleError,   \* Module error
    inited,        \* PluginManager::_inited
    idx,           \* cursor of the loop the manager is in
    updates,       \* number of Update ticks performed
    events         \* calls made into language modules, in order

\* the package manager (core/package_manager.cpp)
VARIABLES
    disk,               \* descriptor files under baseDir, in the order ReadDirectory visits them
    web,                \* manifest URL -> the response the downloader delivers for it
    repositories,       \* Config::repositories
    pkgPc,              \* position of the package manager inside Initialize / Request
    pkgLocal,           \* PackageManager::_localPackages
    pkgRemote,          \* PackageManager::_remotePackages
    missedPackages,     \* PackageManager::_missedPackages (key -> (remote package, version))
    conflictedPackages, \* PackageManager::_conflictedPackages
    fetches,            \* manifest requests of LoadRemotePackages and their callbacks' positions
    mutex,              \* the std::mutex of LoadRemotePackages: 0 or the request holding it
    unguarded,          \* accesses to _remotePackages a callback made without the mutex
    downloads,          \* package downloads started by a Request action, not yet completed
    cursor,             \* FindDependencies: <<package index, dependency index>>
    requested           \* Request calls made so far

packageVars == <<disk, web, repositories, pkgPc, pkgLocal, pkgRemote, missedPackages,
                 conflictedPackages, fetches, mutex, unguarded, downloads, cursor, requested>>

\* the WinHTTP downloader (utils/http_downloader_winhttp.cpp)
VARIABLES
    pending,            \* IHTTPDownloader::_pendingRequests: request -> its record
    calls               \* request -> the status codes its completion callback ran with

downloaderVars == <<pending, calls>>

\* one operation of the package manager taken alone
VARIABLES
    lastCall            \* the last such operation: its arguments, what it returned and did

callVars == <<lastCall>>

\* the JIT trampolines (plugify/jit/callback.cpp)
VARIABLES
    jitRuntime,         \* the asmjit::JitRuntime: whether it is alive, the code added to it
    jitCallbacks        \* JitCallback object -> its fields

jitVars == <<jitRuntime, jitCallbacks>>

managerVars == <<localPackages, pc, descriptor, allPlugins, allModules, pluginState, pluginError,
                 pluginModule, moduleState, moduleError, inited, idx, updates, events>>

vars == <<managerVars, packageVars, downloaderVars, callVars, jitVars>>

(* ------------------------------ helpers -------------------------------- *)
Range(s) == {s[i] : i \in DOMAIN s}

\* position of x in the sequence s (0 when absent)
IndexOf(s, x) == IF x \in Range(s) THEN CHOOSE i \in DOMAIN s : s[i] = x ELSE 0

\* the sequence s without its element at position i (vector::erase)
RemoveAt(s, i) == [j \in 1..(Len(s) - 1) |-> IF j < i THEN s[j] ELSE s[j + 1]]

(* ----------------------- Plugin (src/core/plugin.h) -------------------- *)
\* Plugin::SetLoaded, SetRunning, SetTerminating, SetUnloaded: st is the map
\* of every plugin's _state, p the plugin the method is called on. (Each
\* mutant leaves the state as it was.)
SetLoaded(st, p) == [st EXCEPT ![p] = "Loaded"]

SetRunningKeepsState(st, p) == st

SetRunning(st, p) == [st EXCEPT ![p] = "Running"]

SetTerminatingKeepsState(st, p) == st

SetTerminating(st, p) == [st EXCEPT ![p] = "Terminating"]

SetUnloadedKeepsState(st, p) == st

SetUnloaded(st, p) == [st EXCEPT ![p] = "NotLoaded"]

\* Plugin::SetModule: _module = module
SetModule(pm, p, m) == [pm EXCEPT ![p] = m]

\* Plugin::GetModule: WZ_ASSERT(_module.has_value()); the value
HasModule(p) == pluginModule[p] # NoModule

GetModule(p) == pluginModule[p]

\* Plugin::SetError(error): the plugin is marked Error with the message
\* (applied to every plugin of the set S).
SetErrorState(st, S) == [p \in DOMAIN st |-> IF p \in S THEN "Error" ELSE st[p]]

SetErrorText(er, S, msg) == [p \in DOMAIN er |-> IF p \in S THEN msg ELSE er[p]]

(* ------------------------ error messages (4.F, 7) ---------------------- *)
MissingModuleError(lang) == <<"language module missing", <<"language", lang>>>>

CyclicError == <<"cyclic dependency", <<"none", 0>>>>

DependencyFailed(kind, name) == <<"dependency failed", <<kind, name>>>>

LoadError(p) == <<"load error", <<"plugin", p>>>>

ModuleInitError(m) == <<"initialize failed", <<"module", m>>>>

(* ----------------------------- Init ------------------------------------ *)
\* The dependency entries of the local set's plugin descriptors as one list
\* sorted by (from, name): no descriptor names the same dependency twice.
DependencyLists(n, k, names) ==
    { g \in [1..k -> [from : 1..n, name : names, optional : BOOLEAN]] :
        \A i \in 1..k : \A j \in 1..k :
            i < j => \/ g[i].from < g[j].from
                     \/ g[i].from = g[j].from /\ g[i].name < g[j].name }

\* The local sets of at most maxP plugin packages: n plugin packages named
\* 1..n, nm language-module packages (package m is the module of language
\* m), each plugin's language, and the dependency entries.
LocalSets(maxP) ==
    UNION { UNION { UNION { UNION {
        { [n |-> n, nm |-> nm, lang |-> lang, deps |-> f] :
              f \in DependencyLists(n, k, 1..maxP) }
        : k \in 0..MaxDeps }
        : lang \in [1..n -> Languages] }
        : nm \in 0..MaxModules }
        : n \in 0..maxP }

\* The manager after construction: empty lists, _inited{false}.
ManagerConstructed ==
    /\ pc = "constructed"
    /\ descriptor = <<>>
    /\ allPlugins = <<>>
    /\ allModules = <<>>
    /\ pluginState = <<>>
    /\ pluginError = <<>>
    /\ pluginModule = <<>>
    /\ moduleState = <<>>
    /\ moduleError = <<>>
    /\ inited = FALSE
    /\ idx = 0
    /\ updates = 0
    /\ events = <<>>

\* The package manager before Initialize: empty lists, no downloader work.
PackageManagerIdle ==
    /\ disk = <<>>
    /\ web = <<>>
    /\ repositories = <<>>
    /\ pkgPc = "idle"
    /\ pkgLocal = <<>>
    /\ pkgRemote = <<>>
    /\ missedPackages = <<>>
    /\ conflictedPackages = <<>>
    /\ fetches = <<>>
    /\ mutex = 0
    /\ unguarded = {}
    /\ downloads = {}
    /\ cursor = <<0, 0>>
    /\ requested = 0

\* The downloader with no request.
DownloaderIdle ==
    /\ pending = <<>>
    /\ calls = <<>>

\* No operation was taken alone.
NoCall == [op |-> "none"]

NoCallMade == lastCall = NoCall

\* no JIT runtime in use: no code, no JitCallback constructed
NullAddr == 0    \* nullptr
NoCallback == [state |-> "none", rt |-> FALSE, function |-> NullAddr, userData |-> NullAddr,
               errorCode |-> ""]
JitUnused ==
    /\ jitRuntime = [alive |-> FALSE, added |-> 0, code |-> {}]
    /\ jitCallbacks = [k \in 1..MaxCallbacks |-> NoCallback]

Init ==
    /\ localPackages \in LocalSets(MaxPlugins)
    /\ ManagerConstructed
    /\ PackageManagerIdle
    /\ DownloaderIdle
    /\ JitUnused
    /\ NoCallMade

\* the same, over the smaller local sets of the fair specification
LiveInit ==
    /\ localPackages \in LocalSets(LiveMaxPlugins)
    /\ ManagerConstructed
    /\ PackageManagerIdle
    /\ DownloaderIdle
    /\ JitUnused
    /\ NoCallMade

(* --------------------------- discovery --------------------------------- *)
\* The dependency entries of plugin p, in the order of the descriptor
\* (entries are kept sorted by name; duplicates are removed by 4.A).
RECURSIVE DepsFrom(_, _, _)
DepsFrom(f, i, p) ==
    IF i > Len(f) THEN <<>>
    ELSE IF f[i].from = p
         THEN <<[name |-> f[i].name, optional |-> f[i].optional]>> \o DepsFrom(f, i + 1, p)
         ELSE DepsFrom(f, i + 1, p)

\* (mutant: the lookup never fails)
FindModuleFromLangUnchecked(lang, nm) == lang

\* PluginManager::FindModuleFromLang over the nm discovered modules: the
\* module serving the language, NoModule when there is none.
FindModuleFromLang(lang, nm) == IF lang \in 1..nm THEN lang ELSE NoModule

\* PluginManager::DiscoverAllModulesAndPlugins: one Module per language-module
\* package (module m serves language m), one Plugin per plugin package, in
\* discovery order; a plugin whose language has no local Module is marked
\* Error at once, every other plugin gets its module.
DiscoverAllModulesAndPlugins ==
    /\ pc = "constructed"
    /\ LET n    == localPackages.n
           nm   == localPackages.nm
           lang == localPackages.lang
           f    == localPackages.deps
       IN LET missing == {p \in 1..n : FindModuleFromLang(lang[p], nm) = NoModule}
              fresh   == [p \in 1..n |-> NewPluginState]
          IN /\ descriptor' = [p \in 1..n |->
                    [languageModule |-> lang[p], dependencies |-> DepsFrom(f, 1, p)]]
             /\ allPlugins' = [p \in 1..n |-> p]
             /\ allModules' = [m \in 1..nm |-> m]
             /\ pluginState' = SetErrorState(fresh, missing)
             /\ pluginError' = [p \in 1..n |->
                    IF p \in missing THEN MissingModuleError(lang[p]) ELSE NoError]
             /\ pluginModule' = [p \in 1..n |->
                    IF p \in missing THEN NoModule
                    ELSE SetModule([q \in 1..n |-> NoModule], p,
                                   FindModuleFromLang(lang[p], nm))[p]]
             /\ moduleState' = [m \in 1..nm |-> "NotLoaded"]
             /\ moduleError' = [m \in 1..nm |-> NoError]
    /\ pc' = "loadModules"
    /\ idx' = 1
    /\ UNCHANGED <<localPackages, inited, updates, events>>
    /\ UNCHANGED <<packageVars, downloaderVars, callVars, jitVars>>

(* --------------------------- module load ------------------------------- *)
\* (mutant: a failed load leaves the module in the enumeration's Unknown)
ModuleStateAfterInitializeUnknown(ok) == IF ok THEN "Loaded" ELSE "Unknown"

\* Module state after the load attempt: Loaded on success, Error on failure.
ModuleStateAfterInitialize(ok) == IF ok THEN "Loaded" ELSE "Error"

\* Module state after teardown (Shutdown, then unload).
ModuleStateAfterTerminate == "NotLoaded"

\* (mutant: a module that no plugin is written for is passed over)
LoadOnlyReferencedLanguageModules ==
    /\ pc = "loadModules"
    /\ idx <= Len(allModules)
    /\ LET m == allModules[idx]
       IN /\ moduleState[m] = "NotLoaded"
          /\ \E ok \in BOOLEAN :
                IF \E p \in DOMAIN pluginModule : pluginModule[p] = m
                THEN /\ moduleState' = [moduleState EXCEPT ![m] = IF ok THEN "Loaded" ELSE "Error"]
                     /\ moduleError' = moduleError
                     /\ events' = Append(events, <<"Initialize", m, ok>>)
                ELSE UNCHANGED <<moduleState, moduleError, events>>
    /\ idx' = idx + 1
    /\ UNCHANGED <<localPackages, pc, descriptor, allPlugins, allModules, pluginState,
                   pluginError, pluginModule, inited, updates>>
    /\ UNCHANGED <<packageVars, downloaderVars, callVars, jitVars>>

\* PluginManager::LoadRequiredLanguageModules, one module per step: the
\* library is loaded and Initialize(provider) is called; the module becomes
\* Loaded on success and Error, with the reported string, on failure.
LoadRequiredLanguageModules ==
    /\ pc = "loadModules"
    /\ idx <= Len(allModules)
    /\ LET m == allModules[idx]
       IN /\ moduleState[m] = "NotLoaded"
          /\ \E ok \in BOOLEAN :
                /\ moduleState' = [moduleState EXCEPT ![m] = ModuleStateAfterInitialize(ok)]
                /\ moduleError' = [moduleError EXCEPT ![m] = IF ok THEN NoError ELSE ModuleInitError(m)]
                /\ events' = Append(events, <<"Initialize", m, ok>>)
    /\ idx' = idx + 1
    /\ UNCHANGED <<localPackages, pc, descriptor, allPlugins, allModules, pluginState, pluginError,
                   pluginModule, inited, updates>>
    /\ UNCHANGED <<packageVars, downloaderVars, callVars, jitVars>>

(* -------------------------- plugin ordering ---------------------------- *)
\* PluginManager::SortPluginsByDependencies(pluginName, sourceList, targetList):
\* depth-first, post-order: the named plugin is taken out of sourceList, its
\* dependencies are sorted into targetList first, then it is appended.
RECURSIVE SortPluginsByDependencies(_, _, _)
RECURSIVE SortDependencies(_, _, _, _)
\* (mutant: the plugin is moved without visiting its dependencies)
SortPluginsWithoutDependencies(pluginName, sourceList, targetList) ==
    LET i == IndexOf(sourceList, pluginName)
    IN IF i = 0
       THEN [source |-> sourceList, target |-> targetList]
       ELSE [source |-> RemoveAt(sourceList, i), target |-> Append(targetList, pluginName)]

SortPluginsByDependencies(pluginName, sourceList, targetList) ==
    LET i == IndexOf(sourceList, pluginName)
    IN IF i = 0
       THEN [source |-> sourceList, target |-> targetList]
       ELSE LET r == SortDependencies(descriptor[pluginName].dependencies, 1,
                                      RemoveAt(sourceList, i), targetList)
            IN [source |-> r.source, target |-> Append(r.target, pluginName)]

SortDependencies(deps, j, sourceList, targetList) ==
    IF j > Len(deps)
    THEN [source |-> sourceList, target |-> targetList]
    ELSE LET r == SortPluginsByDependencies(deps[j].name, sourceList, targetList)
         IN SortDependencies(deps, j + 1, r.source, r.target)

\* the loop around it: roots are taken in discovery order until none is left
RECURSIVE SortAllPlugins(_, _)
SortAllPlugins(sourceList, targetList) ==
    IF sourceList = <<>> THEN targetList
    ELSE LET r == SortPluginsByDependencies(sourceList[1], sourceList, targetList)
         IN SortAllPlugins(r.source, r.target)

\* names of the discovered plugins that plugin p lists as dependencies
DependencyNames(p) ==
    {descriptor[p].dependencies[i].name : i \in DOMAIN descriptor[p].dependencies}
        \cap DOMAIN descriptor

\* PluginManager::IsCyclic: depth-first walk over the dependencies with a
\* visited map; the plugin is cyclic when the walk comes back to it.
RECURSIVE VisitDependencies(_, _)
VisitDependencies(stack, visited) ==
    IF stack = {} THEN visited
    ELSE LET q == CHOOSE x \in stack : TRUE
         IN IF q \in visited
            THEN VisitDependencies(stack \ {q}, visited)
            ELSE VisitDependencies((stack \ {q}) \cup DependencyNames(q), visited \cup {q})

\* (mutant: only a plugin that names itself is found)
IsCyclicSelfOnly(p) == p \in DependencyNames(p)

IsCyclic(p) == p \in VisitDependencies(DependencyNames(p), {})

\* PluginManager::HasCyclicDependencies: the plugins of the cyclic components
HasCyclicDependencies(plugins) == {p \in Range(plugins) : IsCyclic(p)}

\* Plugin ordering, before any plugin is loaded: the topological sort, and
\* every plugin of a cyclic component marked Error "cyclic dependency".
OrderPlugins ==
    /\ pc = "loadModules"
    /\ idx > Len(allModules)
    /\ allPlugins' = SortAllPlugins(allPlugins, <<>>)
    /\ LET cyclic == HasCyclicDependencies(allPlugins)
       IN /\ pluginState' = SetErrorState(pluginState, cyclic)
          /\ pluginError' = SetErrorText(pluginError, cyclic, CyclicError)
    /\ pc' = "loadPlugins"
    /\ idx' = 1
    /\ UNCHANGED <<localPackages, descriptor, allModules, pluginModule, moduleState, moduleError,
                   inited, updates, events>>
    /\ UNCHANGED <<packageVars, downloaderVars, callVars, jitVars>>

(* -------------------------- plugin lifecycle --------------------------- *)
\* (mutant: the plugin's state is not looked at)
IsKnownPlugin(q) == q \in DOMAIN pluginState

\* "Loaded" for plugins means state in {Loaded, Running}
IsLoadedPlugin(q) == q \in DOMAIN pluginState /\ pluginState[q] \in {"Loaded", "Running"}

\* the required dependencies of p that are not loaded, in descriptor order
RECURSIVE FailedDependencies(_, _)
FailedDependencies(deps, j) ==
    IF j > Len(deps) THEN <<>>
    ELSE IF ~deps[j].optional /\ ~IsLoadedPlugin(deps[j].name)
         THEN <<deps[j].name>> \o FailedDependencies(deps, j + 1)
         ELSE FailedDependencies(deps, j + 1)

\* PluginManager::LoadAndStartAvailablePlugins, the plugin under the cursor:
\* a plugin already in Error is skipped.
LoadPluginSkip ==
    /\ pc = "loadPlugins"
    /\ idx <= Len(allPlugins)
    /\ pluginState[allPlugins[idx]] # "NotLoaded"
    /\ idx' = idx + 1
    /\ UNCHANGED <<localPackages, pc, descriptor, allPlugins, allModules, pluginState, pluginError,
                   pluginModule, moduleState, moduleError, inited, updates, events>>
    /\ UNCHANGED <<packageVars, downloaderVars, callVars, jitVars>>

\* ... a plugin whose language module is in Error, or one of whose required
\* dependencies is not loaded, becomes Error "dependency failed: <name>".
LoadPluginDependencyFailed ==
    /\ pc = "loadPlugins"
    /\ idx <= Len(allPlugins)
    /\ LET p == allPlugins[idx]
           failed == FailedDependencies(descriptor[p].dependencies, 1)
       IN /\ pluginState[p] = "NotLoaded"
          /\ HasModule(p)
          /\ moduleState[GetModule(p)] # "Loaded" \/ failed # <<>>
          /\ pluginState' = SetErrorState(pluginState, {p})
          /\ pluginError' = SetErrorText(pluginError, {p},
                IF moduleState[GetModule(p)] # "Loaded"
                THEN DependencyFailed("module", GetModule(p))
                ELSE DependencyFailed("plugin", failed[1]))
    /\ idx' = idx + 1
    /\ UNCHANGED <<localPackages, pc, descriptor, allPlugins, allModules, pluginModule, moduleState,
                   moduleError, inited, updates, events>>
    /\ UNCHANGED <<packageVars, downloaderVars, callVars, jitVars>>

\* ... otherwise the module is asked to OnPluginLoad(plugin): on success the
\* plugin becomes Loaded, on a LoadError it becomes Error and is skipped.
LoadPlugin ==
    /\ pc = "loadPlugins"
    /\ idx <= Len(allPlugins)
    /\ LET p == allPlugins[idx]
       IN /\ pluginState[p] = "NotLoaded"
          /\ HasModule(p)
          /\ moduleState[GetModule(p)] = "Loaded"
          /\ FailedDependencies(descriptor[p].dependencies, 1) = <<>>
          /\ \E ok \in BOOLEAN :
                /\ events' = Append(events, <<"OnPluginLoad", p, ok>>)
                /\ IF ok
                   THEN /\ pluginState' = SetLoaded(pluginState, p)
                        /\ pc' = "startPlugin"
                        /\ UNCHANGED <<pluginError, idx>>
                   ELSE /\ pluginState' = SetErrorState(pluginState, {p})
                        /\ pluginError' = SetErrorText(pluginError, {p}, LoadError(p))
                        /\ idx' = idx + 1
                        /\ UNCHANGED pc
    /\ UNCHANGED <<localPackages, descriptor, allPlugins, allModules, pluginModule, moduleState,
                   moduleError, inited, updates>>
    /\ UNCHANGED <<packageVars, downloaderVars, callVars, jitVars>>

\* ... and the loaded plugin is started: OnPluginStart(plugin), then Running.
StartPlugin ==
    /\ pc = "startPlugin"
    /\ LET p == allPlugins[idx]
       IN /\ events' = Append(events, <<"OnPluginStart", p, TRUE>>)
          /\ pluginState' = SetRunning(pluginState, p)
    /\ pc' = "loadPlugins"
    /\ idx' = idx + 1
    /\ UNCHANGED <<localPackages, descriptor, allPlugins, allModules, pluginError, pluginModule,
                   moduleState, moduleError, inited, updates>>
    /\ UNCHANGED <<packageVars, downloaderVars, callVars, jitVars>>

\* PluginManager::Initialize returns: the manager is initialised.
FinishInitialize ==
    /\ pc = "loadPlugins"
    /\ idx > Len(allPlugins)
    /\ pc' = "ready"
    /\ inited' = TRUE
    /\ UNCHANGED <<localPackages, descriptor, allPlugins, allModules, pluginState, pluginError,
                   pluginModule, moduleState, moduleError, idx, updates, events>>
    /\ UNCHANGED <<packageVars, downloaderVars, callVars, jitVars>>

(* ------------------------------ update --------------------------------- *)
RECURSIVE UpdateCalls(_, _)
UpdateCalls(plugins, j) ==
    IF j > Len(plugins) THEN <<>>
    ELSE IF pluginState[plugins[j]] = "Running"
         THEN <<<<"OnPluginUpdate", plugins[j], TRUE>>>> \o UpdateCalls(plugins, j + 1)
         ELSE UpdateCalls(plugins, j + 1)

\* PluginManager::Update(dt): OnPluginUpdate for every Running plugin, in
\* dependency order.
Update ==
    /\ pc = "ready"
    /\ updates < MaxUpdates
    /\ updates' = updates + 1
    /\ events' = events \o UpdateCalls(allPlugins, 1)
    /\ UNCHANGED <<localPackages, pc, descriptor, allPlugins, allModules, pluginState, pluginError,
                   pluginModule, moduleState, moduleError, inited, idx>>
    /\ UNCHANGED <<packageVars, downloaderVars, callVars, jitVars>>

(* ---------------------------- termination ------------------------------ *)
\* PluginManager::Terminate: plugins first, in reverse dependency order.
Terminate ==
    /\ pc = "ready"
    /\ pc' = "terminatePlugins"
    /\ idx' = Len(allPlugins)
    /\ UNCHANGED <<localPackages, descriptor, allPlugins, allModules, pluginState, pluginError,
                   pluginModule, moduleState, moduleError, inited, updates, events>>
    /\ UNCHANGED <<packageVars, downloaderVars, callVars, jitVars>>

\* PluginManager::TerminateAllPlugins, the plugin under the cursor: a plugin
\* that is not Running is passed over.
TerminatePluginSkip ==
    /\ pc = "terminatePlugins"
    /\ idx >= 1
    /\ pluginState[allPlugins[idx]] # "Running"
    /\ idx' = idx - 1
    /\ UNCHANGED <<localPackages, pc, descriptor, allPlugins, allModules, pluginState, pluginError,
                   pluginModule, moduleState, moduleError, inited, updates, events>>
    /\ UNCHANGED <<packageVars, downloaderVars, callVars, jitVars>>

\* ... a Running plugin is transitioned to Terminating,
TerminatePluginBegin ==
    /\ pc = "terminatePlugins"
    /\ idx >= 1
    /\ pluginState[allPlugins[idx]] = "Running"
    /\ pluginState' = SetTerminating(pluginState, allPlugins[idx])
    /\ pc' = "endPlugin"
    /\ UNCHANGED <<localPackages, descriptor, allPlugins, allModules, pluginError, pluginModule,
                   moduleState, moduleError, inited, idx, updates, events>>
    /\ UNCHANGED <<packageVars, downloaderVars, callVars, jitVars>>

\* ... OnPluginEnd(plugin) is invoked and the plugin becomes NotLoaded.
TerminatePluginEnd ==
    /\ pc = "endPlugin"
    /\ LET p == allPlugins[idx]
       IN /\ events' = Append(events, <<"OnPluginEnd", p, TRUE>>)
          /\ pluginState' = SetUnloaded(pluginState, p)
    /\ pc' = "terminatePlugins"
    /\ idx' = idx - 1
    /\ UNCHANGED <<localPackages, descriptor, allPlugins, allModules, pluginError, pluginModule,
                   moduleState, moduleError, inited, updates>>
    /\ UNCHANGED <<packageVars, downloaderVars, callVars, jitVars>>

\* all plugins are done: the modules follow, in reverse discovery order
TerminateAllPluginsDone ==
    /\ pc = "terminatePlugins"
    /\ idx = 0
    /\ pc' = "terminateModules"
    /\ idx' = Len(allModules)
    /\ UNCHANGED <<localPackages, descriptor, allPlugins, allModules, pluginState, pluginError,
                   pluginModule, moduleState, moduleError, inited, updates, events>>
    /\ UNCHANGED <<packageVars, downloaderVars, callVars, jitVars>>

\* PluginManager::TerminateAllModules, the module under the cursor: Shutdown()
\* of a Loaded module, then the library is unloaded; the module is NotLoaded.
TerminateAllModules ==
    /\ pc = "terminateModules"
    /\ idx >= 1
    /\ LET m == allModules[idx]
       IN /\ events' = IF moduleState[m] = "Loaded"
                       THEN Append(events, <<"Shutdown", m, TRUE>>)
                       ELSE events
          /\ moduleState' = [moduleState EXCEPT ![m] = ModuleStateAfterTerminate]
          /\ moduleError' = [moduleError EXCEPT ![m] = NoError]
    /\ idx' = idx - 1
    /\ UNCHANGED <<localPackages, pc, descriptor, allPlugins, allModules, pluginState, pluginError,
                   pluginModule, inited, updates>>
    /\ UNCHANGED <<packageVars, downloaderVars, callVars, jitVars>>

\* PluginManager::Terminate returns.
FinishTerminate ==
    /\ pc = "terminateModules"
    /\ idx = 0
    /\ pc' = "terminated"
    /\ inited' = FALSE
    /\ UNCHANGED <<localPackages, descriptor, allPlugins, allModules, pluginState, pluginError,
                   pluginModule, moduleState, moduleError, idx, updates, events>>
    /\ UNCHANGED <<packageVars, downloaderVars, callVars, jitVars>>

(* --------------------------- specification ----------------------------- *)
Next ==
    \/ DiscoverAllModulesAndPlugins
    \/ LoadRequiredLanguageModules
    \/ OrderPlugins
    \/ LoadPluginSkip
    \/ LoadPluginDependencyFailed
    \/ LoadPlugin
    \/ StartPlugin
    \/ FinishInitialize
    \/ Update
    \/ Terminate
    \/ TerminatePluginSkip
    \/ TerminatePluginBegin
    \/ TerminatePluginEnd
    \/ TerminateAllPluginsDone
    \/ TerminateAllModules
    \/ FinishTerminate

Spec == Init /\ [][Next]_vars

\* The manager runs on the caller's thread: a call that has started goes on,
\* step after step, until it returns.
FairSpec == LiveInit /\ [][Next]_vars /\ WF_vars(Next)

(* ------------------------- notions of the claims ------------------------ *)
Discovered == DOMAIN pluginState

LivePluginStates == {"Loaded", "Running", "Terminating"}

\* positions of the calls made for plugin p (0: not made)
CallIndex(kind, p) ==
    IF \E i \in DOMAIN events : events[i][1] = kind /\ events[i][2] = p
    THEN CHOOSE i \in DOMAIN events : events[i][1] = kind /\ events[i][2] = p
    ELSE 0

LoadedOk(p) == \E i \in DOMAIN events : events[i] = <<"OnPluginLoad", p, TRUE>>

LoadFailed(p) == \E i \in DOMAIN events : events[i] = <<"OnPluginLoad", p, FALSE>>

\* the call appended by the step, if any
NewCalls == {events'[i] : i \in (DOMAIN events') \ (DOMAIN events)}

\* p names q as a dependency (required only, or any entry)
DependsDirectly(p, q, requiredOnly) ==
    \E i \in DOMAIN descriptor[p].dependencies :
        /\ descriptor[p].dependencies[i].name = q
        /\ requiredOnly => ~descriptor[p].dependencies[i].optional

\* there is a chain of dependency entries from p to q, of one entry or more
DependsOn(p, q, requiredOnly) ==
    \E k \in 1..Cardinality(Discovered) :
        \E path \in [1..(k + 1) -> Discovered] :
            /\ path[1] = p
            /\ path[k + 1] = q
            /\ \A i \in 1..k : DependsDirectly(path[i], path[i + 1], requiredOnly)

OnCycle(p) == DependsOn(p, p, FALSE)

InInitialize == pc \in {"loadModules", "loadPlugins", "startPlugin"}

AfterOrdering == pc \notin {"constructed", "loadModules"}

TypeOK ==
    /\ pc \in {"constructed", "loadModules", "loadPlugins", "startPlugin", "ready",
               "terminatePlugins", "endPlugin", "terminateModules", "terminated"}
    /\ \A p \in DOMAIN pluginState : pluginState[p] \in PluginState
    /\ \A m \in DOMAIN moduleState : moduleState[m] \in ModuleState
    /\ Range(allPlugins) = DOMAIN pluginState
    /\ Len(allPlugins) = Cardinality(DOMAIN pluginState)

(* ------------------------------- claims -------------------------------- *)
\* C1: in every reachable state (during Initialize, Update and Terminate) a
\* plugin whose state is Loaded, Running or Terminating has an owning module,
\* and that module's state is Loaded.
StateModuleConsistency ==
    \A p \in Discovered :
        pluginState[p] \in LivePluginStates =>
            HasModule(p) /\ moduleState[GetModule(p)] = "Loaded"

\* a plugin is Terminating inside Terminate, after an Update tick, its module Loaded
StateModuleConsistencyWitness ==
    /\ pc = "endPlugin"
    /\ updates >= 1
    /\ \E p \in Discovered :
          pluginState[p] = "Terminating" /\ moduleState[GetModule(p)] = "Loaded"

\* C2: for every dependency entry p -> q between two plugins that both get
\* loaded, OnPluginLoad(q) is called before OnPluginLoad(p), and at
\* termination OnPluginEnd(p) is called before OnPluginEnd(q).
LoadOrder ==
    \A p \in Discovered : \A q \in Discovered :
        (p # q /\ DependsDirectly(p, q, FALSE) /\ LoadedOk(p) /\ LoadedOk(q)) =>
            /\ CallIndex("OnPluginLoad", q) < CallIndex("OnPluginLoad", p)
            /\ CallIndex("OnPluginEnd", q) # 0 =>
                  /\ CallIndex("OnPluginEnd", p) # 0
                  /\ CallIndex("OnPluginEnd", p) < CallIndex("OnPluginEnd", q)

\* a plugin and its dependency were both loaded and both ended
LoadOrderWitness ==
    /\ pc = "terminated"
    /\ \E p \in Discovered : \E q \in Discovered :
          /\ p < q
          /\ DependsDirectly(p, q, FALSE)
          /\ LoadedOk(p) /\ LoadedOk(q)
          /\ CallIndex("OnPluginEnd", p) # 0 /\ CallIndex("OnPluginEnd", q) # 0

CyclicPluginsMarked ==
    AfterOrdering =>
        \A p \in Discovered :
            OnCycle(p) =>
                /\ pluginState[p] = "Error"
                /\ pluginError[p] = CyclicError
                /\ CallIndex("OnPluginLoad", p) = 0

\* C3: after plugin ordering every plugin that lies on a dependency cycle is
\* in state Error with message "cyclic dependency" and is never passed to
\* OnPluginLoad; and the initialisation that found the cycle still completes.
CyclicDependency ==
    /\ []CyclicPluginsMarked
    /\ (InInitialize /\ \E p \in Discovered : OnCycle(p)) ~> inited

\* S2: A -> B, B -> A; both are Error "cyclic dependency", the manager is initialised
CyclicDependencyWitness ==
    /\ pc = "ready"
    /\ inited
    /\ \E p \in Discovered : \E q \in Discovered :
          /\ p # q
          /\ DependsDirectly(p, q, FALSE) /\ DependsDirectly(q, p, FALSE)
          /\ HasModule(p) /\ HasModule(q)
          /\ pluginState[p] = "Error" /\ pluginError[p] = CyclicError
          /\ pluginState[q] = "Error" /\ pluginError[q] = CyclicError

\* the required dependencies of q, by name
RequiredDependencies(q) ==
    {descriptor[q].dependencies[i].name :
        i \in {j \in DOMAIN descriptor[q].dependencies : ~descriptor[q].dependencies[j].optional}}

\* plugin a ended in Error because its module reported a load error
LoadErrorPlugin(a) == pluginState[a] = "Error" /\ LoadFailed(a)

\* q's message is "dependency failed: <name>", the name being q's module,
\* not Loaded, or a required dependency of q that is not loaded
HasDependencyFailedMessage(q) ==
    \/ /\ HasModule(q)
       /\ moduleState[GetModule(q)] # "Loaded"
       /\ pluginError[q] = DependencyFailed("module", GetModule(q))
    \/ \E d \in RequiredDependencies(q) :
          /\ ~IsLoadedPlugin(d)
          /\ pluginError[q] = DependencyFailed("plugin", d)

ModuleTeardownStep ==
    \/ \E m \in DOMAIN moduleState :
          moduleState[m] \in {"Loaded", "Error"} /\ moduleState'[m] # moduleState[m]
    \/ \E c \in NewCalls : c[1] = "Shutdown"

\* C5: during Terminate no module is shut down or unloaded while a plugin is
\* still Loaded, Running or Terminating, and no OnPluginEnd follows a module's
\* Shutdown: every plugin termination precedes every module teardown.
PluginsEndBeforeModules ==
    [][ /\ ModuleTeardownStep =>
              \A p \in Discovered :
                  pluginState[p] \notin LivePluginStates /\ pluginState'[p] \notin LivePluginStates
        /\ (\E c \in NewCalls : c[1] = "OnPluginEnd") =>
              ~\E i \in DOMAIN events : events[i][1] = "Shutdown" ]_vars

\* a plugin was ended and, later, its module was shut down
PluginsEndBeforeModulesWitness ==
    /\ pc = "terminated"
    /\ \E i \in DOMAIN events : \E j \in DOMAIN events :
          /\ i < j
          /\ events[i][1] = "OnPluginEnd"
          /\ events[j] = <<"Shutdown", GetModule(events[i][2]), TRUE>>

HasNoLocalModule(p) == descriptor[p].languageModule \notin Range(allModules)

\* C7: a discovered plugin whose language has no local Module is in Error,
\* with the missing-module message, as soon as discovery ends, and it is
\* never Loaded or Running (nor passed to OnPluginLoad) afterwards.
MissingModuleIsError ==
    pc # "constructed" =>
        \A p \in Discovered :
            HasNoLocalModule(p) =>
                /\ pluginState[p] = "Error"
                /\ CallIndex("OnPluginLoad", p) = 0
                /\ pc = "loadModules" =>
                      pluginError[p] = MissingModuleError(descriptor[p].languageModule)

\* S3: a plugin without its module is Error while another plugin runs
MissingModuleIsErrorWitness ==
    /\ pc = "ready"
    /\ \E p \in Discovered :
          /\ HasNoLocalModule(p)
          /\ pluginError[p] = MissingModuleError(descriptor[p].languageModule)
    /\ \E q \in Discovered : pluginState[q] = "Running"

LoadSucceeded(p) ==
    /\ InInitialize
    /\ p \in Discovered
    /\ HasModule(p)
    /\ \E i \in DOMAIN events : events[i] = <<"Initialize", GetModule(p), TRUE>>
    /\ \A d \in RequiredDependencies(p) : IsLoadedPlugin(d)
    /\ LoadedOk(p)

RunningAfterInitialize(p) ==
    /\ pc = "ready"
    /\ inited
    /\ p \in Discovered
    /\ HasModule(p)
    /\ pluginState[p] = "Running"
    /\ moduleState[GetModule(p)] = "Loaded"

PluginEdges ==
    { <<"NotLoaded", "Loaded">>, <<"Loaded", "Running">>, <<"Running", "Terminating">>,
      <<"Terminating", "NotLoaded">>, <<"NotLoaded", "Error">> }

\* C9: a plugin's state changes only along NotLoaded -> Loaded -> Running ->
\* Terminating -> NotLoaded and NotLoaded -> Error (a discovered plugin
\* starts NotLoaded or Error), and OnPluginEnd is called only on a plugin
\* that is Terminating.
PluginLifecycle ==
    [][ /\ \A p \in DOMAIN pluginState' :
              IF p \in DOMAIN pluginState
              THEN pluginState'[p] # pluginState[p] =>
                       <<pluginState[p], pluginState'[p]>> \in PluginEdges
              ELSE pluginState'[p] \in {"NotLoaded", "Error"}
        /\ \A c \in NewCalls :
              c[1] = "OnPluginEnd" => pluginState[c[2]] = "Terminating" ]_vars

\* a plugin went all the way round: loaded, started, ended, NotLoaded again
PluginLifecycleWitness ==
    /\ pc = "terminated"
    /\ \E p \in Discovered :
          /\ pluginState[p] = "NotLoaded"
          /\ LoadedOk(p)
          /\ CallIndex("OnPluginStart", p) # 0
          /\ CallIndex("OnPluginEnd", p) > CallIndex("OnPluginStart", p)
    /\ \E q \in Discovered : pluginState[q] = "Error"

ModuleEdges ==
    { <<"NotLoaded", "Loaded">>, <<"NotLoaded", "Error">>,
      <<"Loaded", "NotLoaded">>, <<"Error", "NotLoaded">> }

Names    == 1..MaxNames
Versions == 1..MaxVersion

PluginType == 0    \* type = "plugin"
NoVersion  == 0    \* std::optional<int32_t> without a value
NoURL      == 0    \* the empty string as updateURL / repository URL
NoPackage  == [name |-> 0]   \* std::optional<LocalPackage> without a value

\* the sequences over S of length at most n
SeqsUpTo(S, n) == UNION {[1..k -> S] : k \in 0..n}

\* mutant: of the entries of one name the last is kept, at the place of the
\* first
RECURSIVE RemoveDuplicatesKeepLast(_, _, _)
RemoveDuplicatesKeepLast(cnt, i, result) ==
    IF i > Len(cnt) THEN result
    ELSE RemoveDuplicatesKeepLast(cnt, i + 1,
             IF \E k \in DOMAIN result : result[k].name = cnt[i].name
             THEN [k \in DOMAIN result |->
                      IF result[k].name = cnt[i].name THEN cnt[i] ELSE result[k]]
             ELSE Append(result, cnt[i]))

\* RemoveDuplicates(cnt, cmp) where cmp compares the entries' names: the
\* entries of cnt whose name no earlier kept entry has, in order.
RECURSIVE RemoveDuplicates(_, _, _)
RemoveDuplicates(cnt, i, result) ==
    IF i > Len(cnt) THEN result
    ELSE RemoveDuplicates(cnt, i + 1,
             IF \E k \in DOMAIN result : result[k].name = cnt[i].name
             THEN result ELSE Append(result, cnt[i]))

\* extension == Module::kFileExtension
IsModule(file) == file.extension = "module"

\* GetPackageFromDescriptor<T>(path, name): nothing for a descriptor that does
\* not parse, that does not support the platform, or for a module whose
\* language is "plugin"; else the package, typed by the module's language or
\* "plugin", with the descriptor's version.
GetPackageFromDescriptor(file, path) ==
    IF ~file.json THEN NoPackage
    ELSE IF ~file.supported THEN NoPackage
    ELSE IF IsModule(file) /\ file.language = PluginType THEN NoPackage
    ELSE [name |-> file.name,
          type |-> IF IsModule(file) THEN file.language ELSE PluginType,
          path |-> path,
          version |-> file.version,
          descriptor |-> [language |-> file.language,
                          dependencies |-> IF IsModule(file) THEN <<>>
                                           ELSE RemoveDuplicates(file.dependencies, 1, <<>>),
                          updateURL |-> file.updateURL]]

\* the first index of s whose entry is named name, 0 when there is none
\* (std::find_if over the list, by name)
FindByName(s, name) ==
    IF \E i \in DOMAIN s : s[i].name = name
    THEN CHOOSE i \in DOMAIN s : s[i].name = name /\ \A k \in 1..(i - 1) : s[k].name # name
    ELSE 0

\* mutant: an equal version replaces the existing package
KeepNewerOrEqual(existingPackage, package) ==
    IF existingPackage.version <= package.version THEN package ELSE existingPackage

\* the package LoadLocalPackages keeps when the name is already in the list:
\* the new one when its version is higher, else the existing one
KeepNewer(existingPackage, package) ==
    IF existingPackage.version # package.version
    THEN IF existingPackage.version < package.version THEN package ELSE existingPackage
    ELSE existingPackage

\* the callback LoadLocalPackages hands to ReadDirectory, for one path: only
\* files at depth 1 with the module or the plugin extension are read
ReadDescriptorFile(packages, file, path) ==
    IF file.depth # 1 THEN packages
    ELSE IF ~IsModule(file) /\ file.extension # "plugin" THEN packages
    ELSE LET package == GetPackageFromDescriptor(file, path)
             it      == FindByName(packages, file.name)
         IN IF package = NoPackage THEN packages
            ELSE IF it = 0 THEN Append(packages, package)
            ELSE [packages EXCEPT ![it] = KeepNewer(packages[it], package)]

\* FileSystem::ReadDirectory(baseDir, callback): the files in directory order
RECURSIVE ReadDirectory(_, _, _)
ReadDirectory(files, i, packages) ==
    IF i > Len(files) THEN packages
    ELSE ReadDirectory(files, i + 1, ReadDescriptorFile(packages, files[i], i))

\* PackageManager::Initialize, up to its first call (refused when the
\* downloader exists already)
Initialize ==
    /\ pkgPc = "idle"
    /\ pkgPc' = "loadLocal"
    /\ UNCHANGED <<disk, web, repositories, pkgLocal, pkgRemote, missedPackages,
                   conflictedPackages, fetches, mutex, unguarded, downloads, cursor, requested>>
    /\ UNCHANGED <<managerVars, downloaderVars, callVars, jitVars>>

\* PackageManager::LoadLocalPackages
LoadLocalPackages ==
    /\ pkgPc = "loadLocal"
    /\ pkgLocal' = ReadDirectory(disk, 1, <<>>)
    /\ pkgPc' = "loadRemote"
    /\ UNCHANGED <<disk, web, repositories, pkgRemote, missedPackages,
                   conflictedPackages, fetches, mutex, unguarded, downloads, cursor, requested>>
    /\ UNCHANGED <<managerVars, downloaderVars, callVars, jitVars>>

\* <baseDir>/<folder>/<name>: the directory of a package, folder being
\* "plugins" or "modules" (packageTypes)
PackageDir(folder, name) == [folder |-> folder, name |-> name, staged |-> FALSE]

\* <baseDir>/<folder>/<name>-<timestamp>: the directory a download is
\* extracted into (finalLocation)
StagingDir(folder, name) == [folder |-> folder, name |-> name, staged |-> TRUE]

\* The files of the local-set specification: every name and version, as a
\* plugin, a module, a descriptor that does not parse, one for another
\* platform, a module of the forbidden language "plugin", a file deeper in
\* the tree and a file with another extension.
LocalFiles ==
    { [name |-> n, depth |-> k[1], extension |-> k[2], json |-> k[3], supported |-> k[4],
       version |-> v, language |-> k[5], dependencies |-> <<>>, updateURL |-> NoURL,
       dir |-> PackageDir("plugins", n)] :
          n \in Names, v \in Versions,
          k \in { <<1, "plugin", TRUE, TRUE, 1>>, <<1, "module", TRUE, TRUE, 1>>,
                  <<1, "plugin", FALSE, TRUE, 1>>, <<1, "plugin", TRUE, FALSE, 1>>,
                  <<1, "module", TRUE, TRUE, PluginType>>, <<2, "plugin", TRUE, TRUE, 1>>,
                  <<1, "other", TRUE, TRUE, 1>> } }

\* the plugin manager not in use: an empty local set, nothing constructed from it
PluginManagerUnused ==
    /\ localPackages = [n |-> 0, nm |-> 0, lang |-> <<>>, deps |-> <<>>]
    /\ ManagerConstructed

LocalInit ==
    /\ PluginManagerUnused
    /\ DownloaderIdle
    /\ JitUnused
    /\ NoCallMade
    /\ disk \in SeqsUpTo(LocalFiles, MaxFiles)
    /\ web = <<>>
    /\ repositories = <<>>
    /\ pkgPc = "idle"
    /\ pkgLocal = <<>>
    /\ pkgRemote = <<>>
    /\ missedPackages = <<>>
    /\ conflictedPackages = <<>>
    /\ fetches = <<>>
    /\ mutex = 0
    /\ unguarded = {}
    /\ downloads = {}
    /\ cursor = <<0, 0>>
    /\ requested = 0

LocalNext ==
    \/ Initialize
    \/ LoadLocalPackages

\* Initialize up to the end of LoadLocalPackages, over every directory
LocalSpec == LocalInit /\ [][LocalNext]_vars

(* ---------------------------- C11 -------------------------------------- *)
\* the paths of the valid, platform-applicable descriptors of n on disk: read
\* by the walk, parsed, for this platform, no module of the reserved language
ValidDescriptors(n) ==
    {i \in DOMAIN disk :
        /\ disk[i].name = n
        /\ disk[i].depth = 1
        /\ disk[i].extension \in {"module", "plugin"}
        /\ disk[i].json
        /\ disk[i].supported
        /\ ~(disk[i].extension = "module" /\ disk[i].language = PluginType)}

\* the first of the descriptors of n with the highest version
FirstHighest(n) ==
    CHOOSE i \in ValidDescriptors(n) :
        \A k \in ValidDescriptors(n) :
            \/ disk[k].version < disk[i].version
            \/ disk[k].version = disk[i].version /\ i <= k

LocalLoaded == pkgPc \notin {"idle", "loadLocal"}

\* C11: after LoadLocalPackages, every name with a valid, platform-applicable
\* descriptor on disk has exactly one package in the local set, and it is the
\* first encountered descriptor among those with the highest version.
DiscoveryUniqueness ==
    LocalLoaded =>
        \A n \in Names :
            ValidDescriptors(n) # {} =>
                /\ Cardinality({i \in DOMAIN pkgLocal : pkgLocal[i].name = n}) = 1
                /\ \A i \in DOMAIN pkgLocal :
                       pkgLocal[i].name = n =>
                           /\ pkgLocal[i].path = FirstHighest(n)
                           /\ pkgLocal[i].version = disk[FirstHighest(n)].version

\* a name with three valid descriptors: a lower version first, then the
\* highest version twice; the first of the two is the one kept
DiscoveryUniquenessWitness ==
    /\ LocalLoaded
    /\ \E n \in Names :
           /\ Cardinality(ValidDescriptors(n)) = 3
           /\ \E i \in ValidDescriptors(n) : disk[i].version < disk[FirstHighest(n)].version
                                             /\ i < FirstHighest(n)
           /\ \E k \in ValidDescriptors(n) : disk[k].version = disk[FirstHighest(n)].version
                                             /\ k > FirstHighest(n)
           /\ \E i \in DOMAIN pkgLocal : pkgLocal[i].name = n /\ pkgLocal[i].path = FirstHighest(n)

(* ------------------------ LoadRemotePackages --------------------------- *)
\* RemotePackage::operator==: the (name, type) tuples are equal
SamePackage(a, b) == a.name = b.name /\ a.type = b.type

\* HTTP_STATUS_OK and a manifest that parses
ManifestReadable(response) == response.status = "ok" /\ response.json

\* the position of a manifest callback after the entry before pos: at the
\* next entry of the manifest, or returned
NextEntry(url, pos) ==
    IF ManifestReadable(web[url]) /\ pos <= Len(web[url].content) THEN "entry" ELSE "done"

\* fetchManifest(url) for every url of urls, in order: one request each, its
\* callback not yet at its first entry
RECURSIVE FetchManifests(_, _, _)
FetchManifests(urls, i, acc) ==
    IF i > Len(urls) THEN acc
    ELSE FetchManifests(urls, i + 1,
             IF urls[i] = NoURL THEN acc
             ELSE Append(acc, [url |-> urls[i], pc |-> NextEntry(urls[i], 1), pos |-> 1,
                               it |-> 0, stale |-> FALSE]))

\* PackageManager::LoadRemotePackages up to WaitForAllRequests: the list is
\* cleared and a request is created for every repository, then for every
\* local package's updateURL
LoadRemotePackages ==
    /\ pkgPc = "loadRemote"
    /\ pkgRemote' = <<>>
    /\ mutex' = 0
    /\ fetches' = FetchManifests(
           repositories \o [i \in DOMAIN pkgLocal |-> pkgLocal[i].descriptor.updateURL],
           1, <<>>)
    /\ pkgPc' = "waitRemote"
    /\ UNCHANGED <<disk, web, repositories, pkgLocal, missedPackages, conflictedPackages,
                   unguarded, downloads, cursor, requested>>
    /\ UNCHANGED <<managerVars, downloaderVars, callVars, jitVars>>

\* the entry a callback is at
EntryOf(r) == web[fetches[r].url].content[fetches[r].pos]

\* the callback of request r moved on to its next entry
Advanced(r) ==
    [fetches[r] EXCEPT !.pos = @ + 1, !.pc = NextEntry(fetches[r].url, fetches[r].pos + 1),
                       !.it = 0, !.stale = FALSE]

\* what the lookup of the callback adds to the unguarded accesses: the list is
\* read by std::find_if (and the found element compared) before any lock is taken
FindRecordsAccess(r) == IF mutex = r THEN {} ELSE {"read"}

\* The manifest callback, one entry: an entry whose key differs from its
\* package's name is skipped; else the list is searched by name. An absent
\* name or an equal (name, type) go on to the lock; another type is ignored.
CallbackFind(r) ==
    /\ pkgPc = "waitRemote"
    /\ fetches[r].pc = "entry"
    /\ LET e  == EntryOf(r)
           it == FindByName(pkgRemote, e.key)
       IN IF e.key # e.package.name
          THEN /\ fetches' = [fetches EXCEPT ![r] = Advanced(r)]
               /\ UNCHANGED unguarded
          ELSE /\ unguarded' = unguarded \cup FindRecordsAccess(r)
               /\ IF it = 0 \/ SamePackage(pkgRemote[it], e.package)
                  THEN fetches' = [fetches EXCEPT ![r].pc = "lock", ![r].it = it]
                  ELSE fetches' = [fetches EXCEPT ![r] = Advanced(r)]
    /\ UNCHANGED <<disk, web, repositories, pkgPc, pkgLocal, pkgRemote, missedPackages,
                   conflictedPackages, mutex, downloads, cursor, requested>>
    /\ UNCHANGED <<managerVars, downloaderVars, callVars, jitVars>>

\* std::unique_lock<std::mutex> lock(mutex)
CallbackLock(r) ==
    /\ pkgPc = "waitRemote"
    /\ fetches[r].pc = "lock"
    /\ mutex = 0
    /\ mutex' = r
    /\ fetches' = [fetches EXCEPT ![r].pc = "write"]
    /\ UNCHANGED <<disk, web, repositories, pkgPc, pkgLocal, pkgRemote, missedPackages,
                   conflictedPackages, unguarded, downloads, cursor, requested>>
    /\ UNCHANGED <<managerVars, downloaderVars, callVars, jitVars>>

\* The write under the lock, and the unlock at the end of the scope.
\* emplace_back may reallocate the vector: the iterators other callbacks hold
\* become stale. versions.merge through a stale iterator is undefined: the
\* merge reaches the element or is lost.
CallbackWrite(r) ==
    /\ pkgPc = "waitRemote"
    /\ fetches[r].pc = "write"
    /\ mutex = r
    /\ LET e  == EntryOf(r)
           it == fetches[r].it
       IN IF it = 0
          THEN /\ pkgRemote' = Append(pkgRemote, e.package)
               /\ fetches' = [k \in DOMAIN fetches |->
                      IF k = r THEN Advanced(r)
                      ELSE IF fetches[k].it # 0 THEN [fetches[k] EXCEPT !.stale = TRUE]
                      ELSE fetches[k]]
          ELSE /\ \E reached \in (IF fetches[r].stale THEN BOOLEAN ELSE {TRUE}) :
                      pkgRemote' = IF reached
                                   THEN [pkgRemote EXCEPT ![it].versions = @ \cup e.package.versions]
                                   ELSE pkgRemote
               /\ fetches' = [fetches EXCEPT ![r] = Advanced(r)]
    /\ mutex' = 0
    /\ UNCHANGED <<disk, web, repositories, pkgPc, pkgLocal, missedPackages,
                   conflictedPackages, unguarded, downloads, cursor, requested>>
    /\ UNCHANGED <<managerVars, downloaderVars, callVars, jitVars>>

\* _httpDownloader->WaitForAllRequests() at the end of LoadRemotePackages:
\* returns when every callback has returned
WaitForManifests ==
    /\ pkgPc = "waitRemote"
    /\ \A r \in DOMAIN fetches : fetches[r].pc = "done"
    /\ pkgPc' = "findDependencies"
    /\ UNCHANGED <<disk, web, repositories, pkgLocal, pkgRemote, missedPackages,
                   conflictedPackages, fetches, mutex, unguarded, downloads, cursor, requested>>
    /\ UNCHANGED <<managerVars, downloaderVars, callVars, jitVars>>

(* -------------------------- FindDependencies --------------------------- *)
\* FindLanguageModule(container, name): the first package whose type is the
\* language, 0 when there is none
FindLanguageModule(container, lang) ==
    IF \E i \in DOMAIN container : container[i].type = lang
    THEN CHOOSE i \in DOMAIN container :
             container[i].type = lang /\ \A k \in 1..(i - 1) : container[k].type # lang
    ELSE 0

\* RemotePackage::Version(version).has_value()
HasVersion(package, version) == version \in package.versions

\* mutant: the later request always replaces the recorded version
LastRequestedVersion(existingVersion, requestedVersion) ==
    IF requestedVersion # NoVersion THEN requestedVersion ELSE existingVersion

\* the version an entry of _missedPackages holds after one more request for it
HigherRequestedVersion(existingVersion, requestedVersion) ==
    IF requestedVersion # NoVersion
    THEN IF existingVersion # NoVersion
         THEN IF existingVersion # requestedVersion
              THEN IF existingVersion < requestedVersion THEN requestedVersion
                   ELSE existingVersion
              ELSE existingVersion
         ELSE requestedVersion
    ELSE existingVersion

\* mutant: the language-module entry is keyed by the remote package's name
LanguageModuleKeyByName(lang, remotePackage) == remotePackage.name

\* the key of the entry made for a missing language module: the language
LanguageModuleKey(lang, remotePackage) == lang

\* The language-module part of FindDependencies for one plugin, over the
\* lists local and remote: <<missed, conflicted, continue>>
ResolveLanguageModule(local, remote, missed, conflicted, package) ==
    LET lang == package.descriptor.language
    IN IF FindLanguageModule(local, lang) # 0 THEN <<missed, conflicted, FALSE>>
       ELSE LET r == FindLanguageModule(remote, lang)
            IN IF r # 0
               THEN LET key == LanguageModuleKey(lang, remote[r])
                    IN IF key \notin DOMAIN missed
                       THEN <<missed @@ (key :> [package |-> remote[r], version |-> NoVersion]),
                              conflicted, FALSE>>
                       ELSE <<missed, conflicted, FALSE>>
               ELSE <<missed, Append(conflicted, package.name), TRUE>>

\* mutant: a request is recorded without looking its version up
VersionAvailableUnchecked(remotePackage, requestedVersion) == TRUE

\* dependency.requestedVersion is absent or among the remote package's versions
VersionAvailable(remotePackage, requestedVersion) ==
    ~(requestedVersion # NoVersion /\ ~HasVersion(remotePackage, requestedVersion))

\* The body of the dependency loop of FindDependencies: <<missed, conflicted>>
ResolveDependency(local, remote, missed, conflicted, package, dependency) ==
    IF dependency.optional \/ ~dependency.supported THEN <<missed, conflicted>>
    ELSE IF FindByName(local, dependency.name) # 0 THEN <<missed, conflicted>>
    ELSE LET r == FindByName(remote, dependency.name)
         IN IF r = 0 THEN <<missed, Append(conflicted, package.name)>>
            ELSE IF ~VersionAvailable(remote[r], dependency.requestedVersion)
            THEN <<missed, Append(conflicted, package.name)>>
            ELSE IF dependency.name \notin DOMAIN missed
            THEN <<missed @@ (dependency.name :>
                       [package |-> remote[r], version |-> dependency.requestedVersion]),
                   conflicted>>
            ELSE <<[missed EXCEPT ![dependency.name].version =
                       HigherRequestedVersion(@, dependency.requestedVersion)],
                   conflicted>>

\* the position of FindDependencies after package i (and its dependency j)
AfterPackage(i) == IF i + 1 > Len(pkgLocal) THEN "ready" ELSE "visit"

\* PackageManager::FindDependencies, up to its loop
FindDependencies ==
    /\ pkgPc = "findDependencies"
    /\ missedPackages' = <<>>
    /\ conflictedPackages' = <<>>
    /\ cursor' = <<1, 0>>
    /\ pkgPc' = AfterPackage(0)
    /\ UNCHANGED <<disk, web, repositories, pkgLocal, pkgRemote, fetches, mutex, unguarded,
                   downloads, requested>>
    /\ UNCHANGED <<managerVars, downloaderVars, callVars, jitVars>>

\* One local package of the loop: a package that is no plugin is passed over;
\* for a plugin the language module is resolved, and its dependencies follow
\* unless the plugin was marked conflicted (continue).
VisitPackage ==
    /\ pkgPc = "visit"
    /\ cursor[2] = 0
    /\ LET i       == cursor[1]
           package == pkgLocal[i]
           res     == ResolveLanguageModule(pkgLocal, pkgRemote, missedPackages,
                                            conflictedPackages, package)
       IN IF package.type # PluginType
          THEN /\ UNCHANGED <<missedPackages, conflictedPackages>>
               /\ cursor' = <<i + 1, 0>>
               /\ pkgPc' = AfterPackage(i)
          ELSE /\ missedPackages' = res[1]
               /\ conflictedPackages' = res[2]
               /\ IF res[3] \/ package.descriptor.dependencies = <<>>
                  THEN cursor' = <<i + 1, 0>> /\ pkgPc' = AfterPackage(i)
                  ELSE cursor' = <<i, 1>> /\ pkgPc' = "visit"
    /\ UNCHANGED <<disk, web, repositories, pkgLocal, pkgRemote, fetches, mutex, unguarded,
                   downloads, requested>>
    /\ UNCHANGED <<managerVars, downloaderVars, callVars, jitVars>>

\* One dependency of the plugin the loop is at
VisitDependency ==
    /\ pkgPc = "visit"
    /\ cursor[2] > 0
    /\ LET i       == cursor[1]
           j       == cursor[2]
           package == pkgLocal[i]
           res     == ResolveDependency(pkgLocal, pkgRemote, missedPackages,
                                        conflictedPackages, package,
                                        package.descriptor.dependencies[j])
       IN /\ missedPackages' = res[1]
          /\ conflictedPackages' = res[2]
          /\ IF j < Len(package.descriptor.dependencies)
             THEN cursor' = <<i, j + 1>> /\ pkgPc' = "visit"
             ELSE cursor' = <<i + 1, 0>> /\ pkgPc' = AfterPackage(i)
    /\ UNCHANGED <<disk, web, repositories, pkgLocal, pkgRemote, fetches, mutex, unguarded,
                   downloads, requested>>
    /\ UNCHANGED <<managerVars, downloaderVars, callVars, jitVars>>

\* PackageManager::Initialize from its first call to its return
InitializeNext ==
    \/ Initialize
    \/ LoadLocalPackages
    \/ LoadRemotePackages
    \/ \E r \in DOMAIN fetches : CallbackFind(r)
    \/ \E r \in DOMAIN fetches : CallbackLock(r)
    \/ \E r \in DOMAIN fetches : CallbackWrite(r)
    \/ WaitForManifests
    \/ FindDependencies
    \/ VisitPackage
    \/ VisitDependency

(* ------------------- the catalogue specification ----------------------- *)
MaxRemoteNames == 2   \* names the manifests of the catalogue specification use
MaxEntries     == 2   \* entries of the first manifest (the second has at most one)

RemoteNames == 1..MaxRemoteNames

\* manifest entries: key -> RemotePackage, of type "plugin" or language 1,
\* with one version each
ManifestEntries ==
    [key : RemoteNames,
     package : [name : RemoteNames, type : {PluginType, 1}, versions : {{v} : v \in Versions}]]

\* manifest->content (a map: no key twice), in the order it is iterated
Manifests(n) ==
    {m \in SeqsUpTo(ManifestEntries, n) :
        \A i \in DOMAIN m : \A k \in DOMAIN m : m[i].key = m[k].key => i = k}

\* what the downloader hands to the callback: a manifest, a manifest that
\* does not parse, or an error status
Responses(n) ==
    {[status |-> "ok", json |-> TRUE, content |-> m] : m \in Manifests(n)}
    \cup {[status |-> "ok", json |-> FALSE, content |-> <<>>],
          [status |-> "error", json |-> TRUE, content |-> <<>>]}

\* a plugin descriptor at depth 1
PluginFile(name, version, lang, deps, url) ==
    [name |-> name, depth |-> 1, extension |-> "plugin", json |-> TRUE, supported |-> TRUE,
     version |-> version, language |-> lang, dependencies |-> deps, updateURL |-> url,
     dir |-> PackageDir("plugins", name)]

\* a required dependency for this platform
Requires(name, version) ==
    [name |-> name, optional |-> FALSE, supported |-> TRUE, requestedVersion |-> version]

\* One local plugin of language 1 that requires package 2, no local module;
\* two manifests, fetched as two repositories or as one repository and the
\* plugin's updateURL.
RemoteInit ==
    /\ PluginManagerUnused
    /\ DownloaderIdle
    /\ JitUnused
    /\ NoCallMade
    /\ web \in {<<a, b>> : a \in Responses(MaxEntries), b \in Responses(1)}
    /\ \E url \in {NoURL, 2} :
           /\ disk = <<PluginFile(MaxNames, 1, 1, <<Requires(2, NoVersion)>>, url)>>
           /\ repositories = IF url = NoURL THEN <<1, 2>> ELSE <<1>>
    /\ pkgPc = "idle"
    /\ pkgLocal = <<>>
    /\ pkgRemote = <<>>
    /\ missedPackages = <<>>
    /\ conflictedPackages = <<>>
    /\ fetches = <<>>
    /\ mutex = 0
    /\ unguarded = {}
    /\ downloads = {}
    /\ cursor = <<0, 0>>
    /\ requested = 0

\* Initialize over every pair of manifests, the callbacks interleaved
RemoteSpec == RemoteInit /\ [][InitializeNext]_vars

(* ------------------------ C12, C13, C14 -------------------------------- *)
\* LoadRemotePackages has returned
RemoteMerged == pkgPc \in {"findDependencies", "visit", "ready"}

\* the accepted entries of the manifests that were fetched and could be read
GivenEntries ==
    UNION { {web[fetches[r].url].content[k] : k \in DOMAIN web[fetches[r].url].content}
            : r \in {q \in DOMAIN fetches : ManifestReadable(web[fetches[q].url])} }

\* the union of the version sets the manifests give for (name, type)
GivenVersions(name, type) ==
    UNION { e.package.versions :
            e \in {g \in GivenEntries : /\ g.key = g.package.name
                                        /\ g.package.name = name
                                        /\ g.package.type = type} }

\* C12 (as stated): after LoadRemotePackages every resulting remote package
\* holds the union of the version sets the manifests give for its
\* (name, type), whatever the order in which the callbacks complete.
CatalogueMerge ==
    RemoteMerged =>
        \A i \in DOMAIN pkgRemote :
            pkgRemote[i].versions = GivenVersions(pkgRemote[i].name, pkgRemote[i].type)

\* at most one entry of the remote list per package name
OneEntryPerName ==
    \A i \in DOMAIN pkgRemote : \A k \in DOMAIN pkgRemote :
        pkgRemote[i].name = pkgRemote[k].name => i = k

\* C13 (as stated): under every interleaving of the manifest callbacks the
\* remote list ends with at most one entry per name, and every read and write
\* of the list by a callback is made with the mutex held.
MutexGuardsCatalogue ==
    RemoteMerged => OneEntryPerName /\ unguarded = {}

\* one manifest entry handled by a callback that no other callback overlaps
MergeEntry(remote, e) ==
    IF e.key # e.package.name THEN remote
    ELSE LET it == FindByName(remote, e.key)
         IN IF it = 0 THEN Append(remote, e.package)
            ELSE IF SamePackage(remote[it], e.package)
            THEN [remote EXCEPT ![it].versions = @ \cup e.package.versions]
            ELSE remote

\* a whole manifest handled so
RECURSIVE MergeManifest(_, _, _)
MergeManifest(remote, content, k) ==
    IF k > Len(content) THEN remote
    ELSE MergeManifest(MergeEntry(remote, content[k]), content, k + 1)

\* the remote list when the callbacks complete one after another in the
\* order the requests were created
RECURSIVE CatalogueInRequestOrder(_, _)
CatalogueInRequestOrder(remote, r) ==
    IF r > Len(fetches) THEN remote
    ELSE CatalogueInRequestOrder(
             IF ManifestReadable(web[fetches[r].url])
             THEN MergeManifest(remote, web[fetches[r].url].content, 1)
             ELSE remote,
             r + 1)

\* FindDependencies over the lists local and remote, from package i and its
\* dependency j on (j = 0: the language module): <<missed, conflicted>>
RECURSIVE ResolveFrom(_, _, _, _, _, _)
ResolveFrom(local, remote, i, j, missed, conflicted) ==
    IF i > Len(local) THEN <<missed, conflicted>>
    ELSE IF local[i].type # PluginType
    THEN ResolveFrom(local, remote, i + 1, 0, missed, conflicted)
    ELSE IF j = 0
    THEN LET res == ResolveLanguageModule(local, remote, missed, conflicted, local[i])
         IN IF res[3] \/ local[i].descriptor.dependencies = <<>>
            THEN ResolveFrom(local, remote, i + 1, 0, res[1], res[2])
            ELSE ResolveFrom(local, remote, i, 1, res[1], res[2])
    ELSE LET res == ResolveDependency(local, remote, missed, conflicted, local[i],
                                      local[i].descriptor.dependencies[j])
         IN IF j < Len(local[i].descriptor.dependencies)
            THEN ResolveFrom(local, remote, i, j + 1, res[1], res[2])
            ELSE ResolveFrom(local, remote, i + 1, 0, res[1], res[2])

\* C14 (as stated): missedPackages and conflictedPackages after
\* LoadRemotePackages and FindDependencies are those of the run over the same
\* local set and manifests in which the callbacks complete in request order.
ResolutionDeterminism ==
    pkgPc = "ready" =>
        <<missedPackages, conflictedPackages>> =
            ResolveFrom(pkgLocal, CatalogueInRequestOrder(<<>>, 1), 1, 0, <<>>, <<>>)

(* ------------------- the resolution specification ---------------------- *)
\* a language-module descriptor at depth 1
ModuleFile(name, version, lang) ==
    [name |-> name, depth |-> 1, extension |-> "module", json |-> TRUE, supported |-> TRUE,
     version |-> version, language |-> lang, dependencies |-> <<>>, updateURL |-> NoURL,
     dir |-> PackageDir("modules", name)]

\* the dependency lists of a plugin of the resolution specification: none, or
\* one dependency on package 2 or 3, optional, for another platform,
\* or required with no version or with a version, or the two required
\* dependencies on packages 3 and MaxNames
ResolveDependencies ==
    {<<>>} \cup
    { <<[name |-> n, optional |-> k[1], supported |-> k[2], requestedVersion |-> k[3]]>> :
          n \in {2, 3},
          k \in {<<TRUE, TRUE, NoVersion>>, <<FALSE, FALSE, NoVersion>>}
                \cup {<<FALSE, TRUE, v>> : v \in {NoVersion} \cup Versions} }
    \cup
    { <<[name |-> 3, optional |-> FALSE, supported |-> TRUE, requestedVersion |-> NoVersion],
        [name |-> MaxNames, optional |-> FALSE, supported |-> TRUE,
         requestedVersion |-> NoVersion]>> }

\* the remote packages of the resolution specification: named 2 or 3, a
\* plugin or a module of language 3, holding version 1 or every version
ResolveEntries ==
    { [key |-> n, package |-> [name |-> n, type |-> t, versions |-> vs]] :
          n \in {2, 3}, t \in {PluginType, 3}, vs \in {{1}, Versions} }

\* Two local plugins, 1 and 2, of language 1 or 3, with or without a local
\* module of language 1 (package MaxNames); one repository whose manifest
\* holds at most two packages. Language 3 is also a package name: the
\* strings of languages and of package names are not kept apart.
ResolveInit ==
    /\ PluginManagerUnused
    /\ DownloaderIdle
    /\ JitUnused
    /\ NoCallMade
    /\ \E la \in {1, 3}, lb \in {1, 3}, da \in ResolveDependencies,
          db \in ResolveDependencies, m \in BOOLEAN :
           disk = <<PluginFile(1, 1, la, da, NoURL), PluginFile(2, 1, lb, db, NoURL)>>
                  \o (IF m THEN <<ModuleFile(MaxNames, 1, 1)>> ELSE <<>>)
    /\ \E c \in SeqsUpTo(ResolveEntries, 2) :
           /\ \A i \in DOMAIN c : \A k \in DOMAIN c : c[i].key = c[k].key => i = k
           /\ web = <<[status |-> "ok", json |-> TRUE, content |-> c]>>
    /\ repositories = <<1>>
    /\ pkgPc = "idle"
    /\ pkgLocal = <<>>
    /\ pkgRemote = <<>>
    /\ missedPackages = <<>>
    /\ conflictedPackages = <<>>
    /\ fetches = <<>>
    /\ mutex = 0
    /\ unguarded = {}
    /\ downloads = {}
    /\ cursor = <<0, 0>>
    /\ requested = 0

\* Initialize over every such local set and catalogue
ResolveSpec == ResolveInit /\ [][InitializeNext]_vars

(* ------------------------------ C18 ------------------------------------ *)
\* C18 (as stated): every entry of missedPackages is keyed by the name of the
\* remote package it holds, language-module entries included.
MissedKeyedByName ==
    \A key \in DOMAIN missedPackages : missedPackages[key].package.name = key

(* -------------------------- C15, C16, C17 ------------------------------ *)
\* FindDependencies is about to resolve the language module of a plugin
AtLanguageStep ==
    pkgPc = "visit" /\ cursor[2] = 0 /\ pkgLocal[cursor[1]].type = PluginType

\* FindDependencies is about to handle a dependency of a plugin
AtDependencyStep == pkgPc = "visit" /\ cursor[2] > 0

VisitedPlugin == pkgLocal[cursor[1]]

VisitedDependency == VisitedPlugin.descriptor.dependencies[cursor[2]]

\* no local package is a module of the language
NoLocalModuleOf(lang) == ~\E i \in DOMAIN pkgLocal : pkgLocal[i].type = lang

\* the remote packages of the language, by position in the list
RemoteModulesOf(lang) == {i \in DOMAIN pkgRemote : pkgRemote[i].type = lang}

\* the first remote package of the language
FirstRemoteModuleOf(lang) ==
    pkgRemote[CHOOSE i \in RemoteModulesOf(lang) : \A k \in RemoteModulesOf(lang) : i <= k]

MissingRemoteDependency(dependency) ==
    /\ ~dependency.optional
    /\ dependency.supported
    /\ ~\E i \in DOMAIN pkgLocal : pkgLocal[i].name = dependency.name
    /\ \E i \in DOMAIN pkgRemote : pkgRemote[i].name = dependency.name

\* the versions of the remote package FindRemotePackage returns for the name
RemoteVersionsOf(name) == pkgRemote[FindByName(pkgRemote, name)].versions

\* C16: a required, platform-applicable dependency that is absent locally and
\* present remotely enters missedPackages when, and only when, its requested
\* version (if any) is in the remote package's version set; when it is not,
\* the requesting plugin is marked conflicted and missedPackages is unchanged.
RequestedVersionAvailability ==
    [][ (AtDependencyStep /\ MissingRemoteDependency(VisitedDependency)) =>
            LET dependency == VisitedDependency
                available  == \/ dependency.requestedVersion = NoVersion
                              \/ dependency.requestedVersion
                                     \in RemoteVersionsOf(dependency.name)
            IN IF available
               THEN /\ dependency.name \in DOMAIN missedPackages'
                    /\ conflictedPackages' = conflictedPackages
               ELSE /\ missedPackages' = missedPackages
                    /\ conflictedPackages' = Append(conflictedPackages, VisitedPlugin.name) ]_vars

\* plugin 2 asked for a version of package 3 the catalogue does not
\* hold: it is conflicted and nothing was entered for the package, while
\* plugin 1's request for a version that exists would have been entered
RequestedVersionAvailabilityWitness ==
    /\ pkgPc = "ready"
    /\ pkgLocal[1].descriptor.dependencies = <<>>
    /\ pkgLocal[2].descriptor.dependencies # <<>>
    /\ LET dependency == pkgLocal[2].descriptor.dependencies[1]
       IN /\ MissingRemoteDependency(dependency)
          /\ dependency.requestedVersion # NoVersion
          /\ dependency.requestedVersion \notin RemoteVersionsOf(dependency.name)
          /\ dependency.name \notin DOMAIN missedPackages
    /\ conflictedPackages = <<2>>

\* the requests of plugins with an explicit version for package d, as
\* <<package index, dependency index>>
ExplicitRequests(d) ==
    { ij \in (DOMAIN pkgLocal) \X (1..MaxDeps) :
          /\ pkgLocal[ij[1]].type = PluginType
          /\ ij[2] \in DOMAIN pkgLocal[ij[1]].descriptor.dependencies
          /\ LET dependency == pkgLocal[ij[1]].descriptor.dependencies[ij[2]]
             IN /\ dependency.name = d
                /\ ~dependency.optional
                /\ dependency.supported
                /\ dependency.requestedVersion # NoVersion }

RequestedVersion(ij) == pkgLocal[ij[1]].descriptor.dependencies[ij[2]].requestedVersion

\* the language module of plugin i is a local or a remote package
LanguageModuleFound(i) ==
    \/ ~NoLocalModuleOf(pkgLocal[i].descriptor.language)
    \/ RemoteModulesOf(pkgLocal[i].descriptor.language) # {}

\* d is absent locally, present remotely, and every request of reqs asks for
\* a version the remote package holds; several plugins make the requests
SeveralAvailableRequests(d, reqs) ==
    /\ Cardinality({ij[1] : ij \in reqs}) >= 2
    /\ ~\E i \in DOMAIN pkgLocal : pkgLocal[i].name = d
    /\ \E i \in DOMAIN pkgRemote : pkgRemote[i].name = d
    /\ \A ij \in reqs : RequestedVersion(ij) \in RemoteVersionsOf(d)

\* the highest version the requests ask for is the one recorded for d
HighestRecorded(d, reqs) ==
    /\ d \in DOMAIN missedPackages
    /\ \E ij \in reqs : missedPackages[d].version = RequestedVersion(ij)
    /\ \A ij \in reqs : RequestedVersion(ij) <= missedPackages[d].version

\* C17 as stated: when several local plugins request the same missing
\* dependency with explicit versions that are all available remotely, the
\* highest requested version is recorded, in whatever order they are visited.
HighestRequestedVersionWinsAsStated ==
    pkgPc = "ready" =>
        \A d \in Names :
            SeveralAvailableRequests(d, ExplicitRequests(d)) =>
                HighestRecorded(d, ExplicitRequests(d))

\* the requests of the plugins whose dependencies FindDependencies visits:
\* those whose language module was found locally or remotely
VisitedRequests(d) == {ij \in ExplicitRequests(d) : LanguageModuleFound(ij[1])}

\* C17 (amended): the same, over the plugins whose language module is found
\* locally or remotely; the dependencies of a plugin marked conflicted for
\* its language module are not visited and its request does not count.
HighestRequestedVersionWins ==
    pkgPc = "ready" =>
        \A d \in Names :
            SeveralAvailableRequests(d, VisitedRequests(d)) =>
                HighestRecorded(d, VisitedRequests(d))

\* the higher version is asked by the plugin visited first, the lower one by
\* the second, and the higher one stays recorded
HighestRequestedVersionWinsWitness ==
    /\ pkgPc = "ready"
    /\ \E d \in Names :
           /\ SeveralAvailableRequests(d, VisitedRequests(d))
           /\ <<1, 1>> \in VisitedRequests(d)
           /\ <<2, 1>> \in VisitedRequests(d)
           /\ RequestedVersion(<<1, 1>>) > RequestedVersion(<<2, 1>>)
           /\ missedPackages[d].version = RequestedVersion(<<1, 1>>)

(* ------------------------------ Request -------------------------------- *)
\* RemotePackage::LatestVersion: the highest version of the set (the package
\* has one)
LatestVersion(package) ==
    CHOOSE v \in package.versions : \A w \in package.versions : w <= v

\* RemotePackage::Version(version): the version of that number, when the
\* package has it
Version(package, version) ==
    IF version \in package.versions THEN version ELSE NoVersion

\* IsSupportsPlatform(version.platforms)
IsSupportsPlatform(package, version) == version \in package.supported

\* the version InstallPackage and UpdatePackage go on with: the required one
\* when one is required, else the latest; NoVersion when the package has none
NewVersion(package, requiredVersion) ==
    IF requiredVersion # NoVersion THEN Version(package, requiredVersion)
    ELSE IF package.versions = {} THEN NoVersion
    ELSE LatestVersion(package)

\* DownloadPackage(package, version): CreateRequest(version.mirrors[0], ...).
\* The request sets the call can leave: one request to the first mirror; for
\* a version without mirrors the read of mirrors[0] is undefined, and the
\* call ends before the request or makes one to whatever was read (mirror 0).
DownloadPackage(package, remotePackage, version) ==
    IF version \in remotePackage.mirrored
    THEN {{[name |-> package.name, type |-> package.type, version |-> version, mirror |-> 1]}}
    ELSE {{}, {[name |-> package.name, type |-> package.type, version |-> version, mirror |-> 0]}}

\* InstallPackage(const RemotePackage&, requiredVersion): the version handed
\* to DownloadPackage, NoVersion when it returns false before: a package of
\* the name is installed, the package has no such version, or the version
\* does not support the platform
InstallRemotePackage(package, requiredVersion) ==
    IF FindByName(pkgLocal, package.name) # 0 THEN NoVersion
    ELSE LET newVersion == NewVersion(package, requiredVersion)
         IN IF newVersion = NoVersion THEN NoVersion
            ELSE IF ~IsSupportsPlatform(package, newVersion) THEN NoVersion
            ELSE newVersion

\* mutant: a required version is downloaded only when it is above the
\* installed one
UpdateLocalPackageOnlyNewer(package, requiredVersion) ==
    LET r == FindByName(pkgRemote, package.name)
    IN IF r = 0 THEN NoVersion
       ELSE LET newVersion == NewVersion(pkgRemote[r], requiredVersion)
            IN IF newVersion = NoVersion THEN NoVersion
               ELSE IF ~IsSupportsPlatform(pkgRemote[r], newVersion) THEN NoVersion
               ELSE IF newVersion > package.version THEN newVersion
               ELSE NoVersion

\* UpdatePackage(const LocalPackage&, requiredVersion): the version handed to
\* DownloadPackage, NoVersion when it returns false before: no remote package
\* of the name, no such version, a version that does not support the
\* platform, or, with no required version, a latest version not above the
\* installed one
UpdateLocalPackage(package, requiredVersion) ==
    LET r == FindByName(pkgRemote, package.name)
    IN IF r = 0 THEN NoVersion
       ELSE LET newVersion == NewVersion(pkgRemote[r], requiredVersion)
            IN IF newVersion = NoVersion THEN NoVersion
               ELSE IF ~IsSupportsPlatform(pkgRemote[r], newVersion) THEN NoVersion
               ELSE IF requiredVersion # NoVersion THEN newVersion
               ELSE IF newVersion > package.version THEN newVersion
               ELSE NoVersion

\* the position of a Request after its action: at WaitForAllRequests
AfterAction == "waitDownloads"

\* InstallPackage(packageName, requiredVersion): Request whose action installs
\* the remote package of the name, when there is one
RequestInstallPackage ==
    /\ pkgPc = "ready"
    /\ requested < MaxRequests
    /\ \E packageName \in Names, requiredVersion \in {NoVersion} \cup Versions :
           LET r       == FindByName(pkgRemote, packageName)
               version == IF r # 0 THEN InstallRemotePackage(pkgRemote[r], requiredVersion)
                          ELSE NoVersion
           IN \E created \in IF version # NoVersion
                              THEN DownloadPackage(pkgRemote[r], pkgRemote[r], version)
                              ELSE {{}} :
                  /\ downloads' = created
                  /\ lastCall' = [op |-> "InstallPackage",
                                  requiredVersion |-> requiredVersion,
                                  remote |-> IF r # 0 THEN pkgRemote[r] ELSE NoPackage,
                                  installed |-> FindByName(pkgLocal, packageName) # 0,
                                  returned |-> version # NoVersion,
                                  requests |-> created]
    /\ pkgPc' = AfterAction
    /\ requested' = requested + 1
    /\ UNCHANGED <<disk, web, repositories, pkgLocal, pkgRemote, missedPackages,
                   conflictedPackages, fetches, mutex, unguarded, cursor>>
    /\ UNCHANGED <<managerVars, downloaderVars, jitVars>>

\* UpdatePackage(packageName, requiredVersion): Request whose action updates
\* the local package of the name, when there is one
RequestUpdatePackage ==
    /\ pkgPc = "ready"
    /\ requested < MaxRequests
    /\ \E packageName \in Names, requiredVersion \in {NoVersion} \cup Versions :
           LET l       == FindByName(pkgLocal, packageName)
               r       == FindByName(pkgRemote, packageName)
               version == IF l # 0 THEN UpdateLocalPackage(pkgLocal[l], requiredVersion)
                          ELSE NoVersion
           IN \E created \in IF version # NoVersion
                              THEN DownloadPackage(pkgLocal[l], pkgRemote[r], version)
                              ELSE {{}} :
                  /\ downloads' = created
                  /\ lastCall' = [op |-> "UpdatePackage",
                                  requiredVersion |-> requiredVersion,
                                  local |-> IF l # 0 THEN pkgLocal[l] ELSE NoPackage,
                                  remote |-> IF r # 0 THEN pkgRemote[r] ELSE NoPackage,
                                  download |-> version,
                                  requests |-> created]
    /\ pkgPc' = AfterAction
    /\ requested' = requested + 1
    /\ UNCHANGED <<disk, web, repositories, pkgLocal, pkgRemote, missedPackages,
                   conflictedPackages, fetches, mutex, unguarded, cursor>>
    /\ UNCHANGED <<managerVars, downloaderVars, jitVars>>

\* a manifest entry: the package, the versions that support the host platform
\* and the versions that have a mirror
RemoteEntry(name, type, versions, supported, mirrored) ==
    [key |-> name, package |-> [name |-> name, type |-> type, versions |-> versions,
                                supported |-> supported, mirrored |-> mirrored]]

\* the manifest files InstallAllPackages is given: any of an entry for package
\* 1, one for package 2 and one whose key (3) differs from its name
ManifestFiles ==
    SUBSET { RemoteEntry(1, PluginType, Versions, Versions, Versions),
             RemoteEntry(2, PluginType, {1}, {1}, {1}),
             [RemoteEntry(2, PluginType, {1}, {1}, {1}) EXCEPT !.key = 3] }

\* the entries InstallAllPackages installs: without reinstall, those whose key
\* is not the name of a local package
EntriesToInstall(content, reinstall) ==
    IF reinstall THEN content
    ELSE {e \in content : FindByName(pkgLocal, e.key) = 0}

\* the request sets DownloadPackage can leave for the entry: none when the
\* key differs from the name or InstallPackage(package) returns false
InstallEntry(e) ==
    IF e.key # e.package.name THEN {{}}
    ELSE IF InstallRemotePackage(e.package, NoVersion) = NoVersion THEN {{}}
    ELSE DownloadPackage(e.package, e.package, InstallRemotePackage(e.package, NoVersion))

\* the request sets the loop over the entries can leave
InstallEntries(content) ==
    { UNION {created[e] : e \in content} :
          created \in {c \in [content -> UNION {InstallEntry(e) : e \in content}] :
                          \A e \in content : c[e] \in InstallEntry(e)} }

\* InstallAllPackages(manifestFilePath, reinstall): nothing for a file of
\* another extension or one that does not parse, nothing when no entry is
\* left to install; else a Request whose action calls InstallPackage(package)
\* for every entry whose key is its name
RequestInstallAllPackages ==
    /\ pkgPc = "ready"
    /\ requested < MaxRequests
    /\ \E manifest \in ManifestFiles, readable \in BOOLEAN, reinstall \in BOOLEAN :
           LET content == IF readable THEN EntriesToInstall(manifest, reinstall) ELSE {}
           IN \E created \in InstallEntries(content) :
                  /\ lastCall' = [op |-> "InstallAllPackages",
                                  manifest |-> manifest,
                                  readable |-> readable,
                                  reinstall |-> reinstall,
                                  installed |-> {pkgLocal[i].name : i \in DOMAIN pkgLocal},
                                  requests |-> created]
                  /\ IF content = {}
                     THEN UNCHANGED <<downloads, pkgPc, requested>>
                     ELSE /\ downloads' = created
                          /\ pkgPc' = AfterAction
                          /\ requested' = requested + 1
    /\ UNCHANGED <<disk, web, repositories, pkgLocal, pkgRemote, missedPackages,
                   conflictedPackages, fetches, mutex, unguarded, cursor>>
    /\ UNCHANGED <<managerVars, downloaderVars, jitVars>>

\* the RemotePackage made of a local package: its name, its type and the one
\* version that is installed
SnapshotEntry(package) ==
    [key |-> package.name,
     package |-> [name |-> package.name, type |-> package.type,
                  versions |-> {package.version}]]

\* mutant: the snapshot holds the plugins only
SnapshotOfPlugins(local) ==
    {SnapshotEntry(local[i]) : i \in {k \in DOMAIN local : local[k].type = PluginType}}

\* packages.emplace(package.name, package) for every local package: one entry
\* per name, the first of a name kept
SnapshotOf(local) ==
    {SnapshotEntry(local[i]) : i \in {k \in DOMAIN local : FindByName(local, local[k].name) = k}}

\* SnapshotPackages(manifestFilePath, prettify): nothing is written for an
\* empty map, else the manifest of the local packages
SnapshotPackages ==
    /\ pkgPc = "ready"
    /\ lastCall' = [op |-> "SnapshotPackages",
                    local |-> pkgLocal,
                    written |-> SnapshotOf(pkgLocal) # {},
                    manifest |-> SnapshotOf(pkgLocal)]
    /\ UNCHANGED <<packageVars, managerVars, downloaderVars, jitVars>>

(* ---------------------------- ExtractPackage ---------------------------- *)
\* where extractPath / m_filename lies: under extractPath for a relative name
\* without '..', outside it for a name that climbs with '..' and for an
\* absolute name (operator/ then yields the name itself)
Places == {"inside", "parent", "absolute"}

\* what can fail for an entry: mz_zip_reader_file_stat,
\* mz_zip_reader_extract_to_mem, fs::create_directories, the std::ofstream
Faults == {"none", "stat", "extract", "directory", "file"}

\* the entries of an archive: whether the name has the descriptor extension,
\* where the name leads, whether its directory is not there yet, what fails
ArchiveEntries ==
    [descriptor : BOOLEAN, place : Places, deep : BOOLEAN, fault : Faults]

Archives == SeqsUpTo(ArchiveEntries, MaxArchive)

\* the first loop: the first entry whose stat fails, 0 when there is none
FirstStatFailure(archive) ==
    IF \E i \in DOMAIN archive : archive[i].fault = "stat"
    THEN CHOOSE i \in DOMAIN archive :
             archive[i].fault = "stat" /\ \A k \in 1..(i - 1) : archive[k].fault # "stat"
    ELSE 0

\* mutant: the descriptor is taken to be there
FoundDescriptorUnchecked(archive) == TRUE

\* foundDescriptor after the first loop
FoundDescriptor(archive) == \E i \in DOMAIN archive : archive[i].descriptor

\* what entry i leaves on the file system
Written(archive, i, kind) == [entry |-> i, place |-> archive[i].place, kind |-> kind]

\* the second loop from entry i on: the first failure ends it with what was
\* written before
RECURSIVE ExtractEntries(_, _, _)
ExtractEntries(archive, i, written) ==
    IF i > Len(archive) THEN [error |-> "", written |-> written]
    ELSE IF archive[i].fault = "extract"
    THEN [error |-> "Failed extracting file", written |-> written]
    ELSE IF archive[i].deep /\ archive[i].fault = "directory"
    THEN [error |-> "Error creating output directory", written |-> written]
    ELSE LET made == IF archive[i].deep
                     THEN written \cup {Written(archive, i, "directory")}
                     ELSE written
         IN IF archive[i].fault = "file"
            THEN [error |-> "Failed creating destination file", written |-> made]
            ELSE ExtractEntries(archive, i + 1, made \cup {Written(archive, i, "file")})

\* ExtractPackage(packageData, extractPath, descriptorExt): the error (empty
\* for none) and the files and directories written
ExtractPackage(archive) ==
    IF FirstStatFailure(archive) # 0
    THEN [error |-> "Error getting file stat", written |-> {}]
    ELSE IF ~FoundDescriptor(archive)
    THEN [error |-> "Package descriptor missing", written |-> {}]
    ELSE ExtractEntries(archive, 1, {})

(* ------------------- the files of a package directory ------------------- *)
\* the files of the directory dir, in directory order
DirContent(files, dir) == SelectSeq(files, LAMBDA f : f.dir = dir)

\* FileSystem::RemoveFolder(dir), when it works: the directory and everything
\* under it are gone
RemoveFolder(files, dir) == SelectSeq(files, LAMBDA f : f.dir # dir)

\* a file written by the std::ofstream: a new file, or the same file again
AddFile(files, f) ==
    IF \E i \in DOMAIN files : files[i] = f THEN files ELSE Append(files, f)

\* UninstallPackage(package, remove = true): RemoveFolder of the parent path of
\* the descriptor and, when that worked, the entry erased from the local set
UninstallPackage(files, local, l, removed) ==
    IF removed
    THEN [disk  |-> RemoveFolder(files, files[local[l].path].dir),
          local |-> RemoveAt(local, l)]
    ELSE [disk |-> files, local |-> local]

\* UninstallPackage(packageName): Request whose action uninstalls the local
\* package of the name, when there is one
RequestUninstallPackage ==
    /\ pkgPc = "ready"
    /\ requested < MaxRequests
    /\ \E packageName \in Names, removed \in BOOLEAN :
           LET l      == FindByName(pkgLocal, packageName)
               result == UninstallPackage(disk, pkgLocal, l, removed)
           IN /\ l = 0 => ~removed
              /\ IF l # 0
                 THEN /\ disk' = result.disk
                      /\ pkgLocal' = result.local
                 ELSE UNCHANGED <<disk, pkgLocal>>
              /\ lastCall' = [op |-> "UninstallPackage",
                              name |-> packageName,
                              found |-> l # 0,
                              removed |-> removed,
                              previous |-> IF lastCall.op = "DownloadCallback"
                                           THEN lastCall ELSE NoCall]
    /\ downloads' = {}
    /\ pkgPc' = AfterAction
    /\ requested' = requested + 1
    /\ UNCHANGED <<web, repositories, pkgRemote, missedPackages,
                   conflictedPackages, fetches, mutex, unguarded, cursor>>
    /\ UNCHANGED <<managerVars, downloaderVars, jitVars>>

(* -------------------------- the download callback ------------------------ *)
\* the entries of the archives a mirror may serve: the descriptor of the
\* package, another file, a file whose extraction fails, and a file named
\* "../<target>/..." that leads into the directory of package target
DescriptorEntry ==
    [descriptor |-> TRUE, place |-> "inside", deep |-> FALSE, fault |-> "none", target |-> 0]

PayloadEntry ==
    [descriptor |-> FALSE, place |-> "inside", deep |-> FALSE, fault |-> "none", target |-> 0]

FailingEntry ==
    [descriptor |-> FALSE, place |-> "inside", deep |-> FALSE, fault |-> "extract", target |-> 0]

EscapingEntry(target) ==
    [descriptor |-> FALSE, place |-> "parent", deep |-> FALSE, fault |-> "none",
     target |-> target]

\* the packages whose directory an escaping entry names
EscapeTargets == {1, 2}

\* the archives a mirror may serve
DownloadArchives ==
    { <<DescriptorEntry>>, <<PayloadEntry>>, <<DescriptorEntry, FailingEntry>> }
    \cup { <<DescriptorEntry, EscapingEntry(target)>> : target \in EscapeTargets }
    \cup { <<DescriptorEntry, EscapingEntry(target), FailingEntry>> : target \in EscapeTargets }

\* packageTypes[plugin].first
Folder(d) == IF d.type = PluginType THEN "plugins" ELSE "modules"

\* the file an extracted entry of the archive of download d is, in directory dir
ExtractedFile(d, entry, dir) ==
    IF entry.descriptor
    THEN IF d.type = PluginType
         THEN [PluginFile(d.name, d.version, 1, <<>>, NoURL) EXCEPT !.dir = dir]
         ELSE [ModuleFile(d.name, d.version, d.type) EXCEPT !.dir = dir]
    ELSE [name |-> 0, depth |-> 1, extension |-> "other", json |-> FALSE, supported |-> TRUE,
          version |-> NoVersion, language |-> 0, dependencies |-> <<>>, updateURL |-> NoURL,
          dir |-> dir]

\* the files ExtractPackage wrote for the entries of one place, from entry i on,
\* added to files in the order of the archive; an entry under extractPath
\* lies in the staging directory, an entry that climbs out of it in
\* <baseDir>/<folder>/<target>
RECURSIVE WrittenFiles(_, _, _, _, _, _)
WrittenFiles(files, d, archive, written, place, i) ==
    IF i > Len(archive) THEN files
    ELSE WrittenFiles(
             IF archive[i].place = place /\ Written(archive, i, "file") \in written
             THEN AddFile(files,
                          ExtractedFile(d, archive[i],
                                        IF place = "inside"
                                        THEN StagingDir(Folder(d), d.name)
                                        ELSE PackageDir(Folder(d), archive[i].target)))
             ELSE files,
             d, archive, written, place, i + 1)

\* FileSystem::MoveFolder(finalLocation, finalPath / name), when it works: the
\* package directory is what the staging directory was
MoveFolder(files, staged, dir) ==
    RemoveFolder(files, dir) \o [i \in DOMAIN staged |-> [staged[i] EXCEPT !.dir = dir]]

\* whether the callback renames the staging directory: status 200, content
\* type application/zip, no error from ExtractPackage, and the rename worked
Promoted(statusCode, zip, error, moved) ==
    statusCode = "ok" /\ zip /\ error = "" /\ moved

\* The callback of DownloadPackage: a failed download or another content type
\* end it; else the archive is extracted into the staging directory, which is
\* renamed to the package directory when ExtractPackage returned no error, and
\* left as it is otherwise.
DownloadCallback(d) ==
    /\ pkgPc = "waitDownloads"
    /\ d \in downloads
    /\ \E statusCode \in {"ok", "error"}, zip \in BOOLEAN, archive \in DownloadArchives,
          moved \in BOOLEAN :
           LET extracting == statusCode = "ok" /\ zip
               result     == ExtractPackage(archive)
               escaped    == WrittenFiles(disk, d, archive, result.written, "parent", 1)
               staged     == WrittenFiles(<<>>, d, archive, result.written, "inside", 1)
               promoted   == Promoted(statusCode, zip, result.error, moved)
           IN /\ ~extracting => archive = <<DescriptorEntry>> /\ ~moved
              /\ disk' = IF ~extracting THEN disk
                         ELSE IF promoted
                         THEN MoveFolder(escaped, staged, PackageDir(Folder(d), d.name))
                         ELSE WrittenFiles(escaped, d, archive, result.written, "inside", 1)
              /\ lastCall' = [op |-> "DownloadCallback",
                              request |-> d,
                              statusCode |-> statusCode,
                              zip |-> zip,
                              error |-> IF extracting THEN result.error ELSE "",
                              promoted |-> promoted,
                              installed |-> FindByName(pkgLocal, d.name) # 0,
                              before |-> disk,
                              others |-> downloads \ {d}]
    /\ downloads' = downloads \ {d}
    /\ UNCHANGED <<web, repositories, pkgPc, pkgLocal, pkgRemote, missedPackages,
                   conflictedPackages, fetches, mutex, unguarded, cursor, requested>>
    /\ UNCHANGED <<managerVars, downloaderVars, jitVars>>

\* WaitForAllRequests returns: every outstanding callback has returned
AllCallbacksReturned == downloads = {}

\* mutant: Request goes on to LoadLocalPackages without waiting
LoadWithoutWaiting ==
    /\ pkgPc = "waitDownloads"
    /\ pkgPc' = "loadLocal"
    /\ UNCHANGED <<disk, web, repositories, pkgLocal, pkgRemote, missedPackages,
                   conflictedPackages, fetches, mutex, unguarded, downloads, cursor, requested>>
    /\ UNCHANGED <<managerVars, downloaderVars, callVars, jitVars>>

\* Request after action(): _httpDownloader->WaitForAllRequests(), then
\* LoadLocalPackages, LoadRemotePackages and FindDependencies follow
WaitForDownloads ==
    /\ pkgPc = "waitDownloads"
    /\ AllCallbacksReturned
    /\ pkgPc' = "loadLocal"
    /\ UNCHANGED <<disk, web, repositories, pkgLocal, pkgRemote, missedPackages,
                   conflictedPackages, fetches, mutex, unguarded, downloads, cursor, requested>>
    /\ UNCHANGED <<managerVars, downloaderVars, callVars, jitVars>>

\* the package manager: Initialize, then Request calls
PackageNext ==
    \/ Initialize
    \/ LoadLocalPackages
    \/ LoadRemotePackages
    \/ \E r \in DOMAIN fetches : CallbackFind(r)
    \/ \E r \in DOMAIN fetches : CallbackLock(r)
    \/ \E r \in DOMAIN fetches : CallbackWrite(r)
    \/ WaitForManifests
    \/ FindDependencies
    \/ VisitPackage
    \/ VisitDependency
    \/ RequestInstallPackage
    \/ RequestUpdatePackage
    \/ RequestUninstallPackage
    \/ RequestInstallAllPackages
    \/ SnapshotPackages
    \/ \E d \in downloads : DownloadCallback(d)
    \/ WaitForDownloads

\* The manifests of the one repository: packages 1 and 2 (plugins), package 3
\* (the module of language 3) and package 4 without versions, where version 2
\* of package 1 may be for another platform and version 1 of package 2 may
\* have no mirror; or package 1 alone.
RequestCatalogues ==
    { <<RemoteEntry(1, PluginType, Versions, supported, Versions),
        RemoteEntry(2, PluginType, {1}, {1}, mirrored),
        RemoteEntry(3, 3, Versions, Versions, Versions),
        RemoteEntry(MaxNames, PluginType, {}, {}, {})>> :
          supported \in {Versions, {1}}, mirrored \in {{1}, {}} }
    \cup { <<RemoteEntry(1, PluginType, Versions, Versions, Versions)>> }

\* Plugin 1 (version 1, language 3, requiring package 2), with or without
\* plugin 2; one repository that offers packages 1 and 2 (plugins) and package
\* 3 (the module of language 3), or only package 1.
RequestInit ==
    /\ PluginManagerUnused
    /\ DownloaderIdle
    /\ JitUnused
    /\ NoCallMade
    /\ disk \in { <<PluginFile(1, 1, 3, <<Requires(2, NoVersion)>>, NoURL)>>,
                  <<PluginFile(1, 1, 3, <<Requires(2, NoVersion)>>, NoURL),
                    PluginFile(2, 1, 3, <<>>, NoURL)>>,
                  <<PluginFile(1, 2, 3, <<>>, NoURL), ModuleFile(3, 1, 3)>> }
    /\ \E c \in RequestCatalogues :
           web = <<[status |-> "ok", json |-> TRUE, content |-> c]>>
    /\ repositories = <<1>>
    /\ pkgPc = "idle"
    /\ pkgLocal = <<>>
    /\ pkgRemote = <<>>
    /\ missedPackages = <<>>
    /\ conflictedPackages = <<>>
    /\ fetches = <<>>
    /\ mutex = 0
    /\ unguarded = {}
    /\ downloads = {}
    /\ cursor = <<0, 0>>
    /\ requested = 0

\* Initialize, then up to MaxRequests install, update or uninstall requests
RequestSpec == RequestInit /\ [][PackageNext]_vars

(* ------------------------------ C19 ------------------------------------ *)
\* the order of the positions of a Request: action, wait, LoadLocalPackages,
\* LoadRemotePackages (and its own wait), FindDependencies, return
RequestOrder ==
    { <<"ready", "waitDownloads">>, <<"waitDownloads", "loadLocal">>,
      <<"loadLocal", "loadRemote">>, <<"loadRemote", "waitRemote">>,
      <<"waitRemote", "findDependencies">>, <<"findDependencies", "visit">>,
      <<"findDependencies", "ready">>, <<"visit", "ready">> }

\* C19: in every Request the action runs first, every download callback the
\* action started has returned before LoadLocalPackages starts, and
\* LoadLocalPackages, LoadRemotePackages and FindDependencies run in that
\* order before Request returns.
RequestBarrier ==
    [][ requested' > 0 =>
            /\ pkgPc' # pkgPc => <<pkgPc, pkgPc'>> \in RequestOrder
            /\ pkgPc' # "waitDownloads" => downloads' = {}
            /\ downloads' # downloads =>
                   \/ pkgPc = "ready" /\ pkgPc' = "waitDownloads"
                   \/ pkgPc = "waitDownloads" /\ pkgPc' = "waitDownloads" ]_vars

\* a Request whose action started a download has returned: the download's
\* callback installed the package and the resolution that followed saw it
RequestBarrierWitness ==
    /\ requested = 1
    /\ pkgPc = "ready"
    /\ Len(pkgLocal) = 2
    /\ Len(disk) = 2
    /\ disk[2].name = 2
    /\ pkgLocal[2].name = 2
    /\ pkgLocal[2].path = 2
    /\ \E i \in DOMAIN pkgRemote : pkgRemote[i].name = 2

(* --------------------------- HTTP downloader ---------------------------- *)
\* Request::statusCode as the callback sees it: not yet set, 200, another
\* HTTP status, HTTP_STATUS_ERROR
StatusCodes == {"none", "ok", "httpError", "error", "timeout"}

\* the outcomes of StartRequest: WinHttpCrackUrl fails, WinHttpConnect fails,
\* WinHttpOpenRequest fails, WinHttpSendRequest fails, the request is sent
StartOutcomes == {"crackFailed", "connectFailed", "openFailed", "sendFailed", "sent"}

\* the requests created so far
Requests == DOMAIN calls

\* the request the next CreateRequest makes (InternalCreateRequest)
InternalCreateRequest == Len(calls) + 1

\* _pendingRequests without req
Erase(req) == [r \in DOMAIN pending \ {req} |-> pending[r]]

\* req->callback(statusCode, ...) for req
Invoked(req, statusCode) == [calls EXCEPT ![req] = Append(@, statusCode)]

\* a field of the record of req is stored
Store(req, state, statusCode, io) ==
    [pending EXCEPT ![req] = [state |-> state, statusCode |-> statusCode,
                              io |-> io, chunks |-> @.chunks]]

\* statusCode = HTTP_STATUS_ERROR; state.store(Complete): WinHTTP has nothing
\* more to notify
StoreError(req) == Store(req, "Complete", "error", "stopped")

\* StartRequest(request): the two early failures invoke the callback and
\* delete the request; a failed WinHttpOpenRequest closes the connection and
\* returns false; a failed WinHttpSendRequest stores the error and Complete,
\* and the state is then overwritten with Started (line 246).  A request for
\* which StartRequest returned false is not kept by the caller: it may be
\* deleted already.
StartRequest(req, outcome) ==
    CASE outcome \in {"crackFailed", "connectFailed"} ->
             /\ calls' = Append(calls, <<"error">>)
             /\ pending' = pending
      [] outcome = "openFailed" ->
             /\ calls' = Append(calls, <<>>)
             /\ pending' = pending
      [] outcome = "sendFailed" ->
             /\ calls' = Append(calls, <<>>)
             /\ pending' = pending @@ (req :> [state |-> "Started", statusCode |-> "error",
                                               io |-> "stopped", chunks |-> 0])
      [] outcome = "sent" ->
             /\ calls' = Append(calls, <<>>)
             /\ pending' = pending @@ (req :> [state |-> "Started", statusCode |-> "none",
                                               io |-> "sendComplete", chunks |-> 0])

\* CreateRequest(url, callback): a new request is started
CreateRequest ==
    /\ Len(calls) < MaxDownloads
    /\ \E outcome \in StartOutcomes : StartRequest(InternalCreateRequest, outcome)
    /\ UNCHANGED <<managerVars, packageVars, callVars, jitVars>>

\* HTTPStatusCallback, WINHTTP_CALLBACK_STATUS_REQUEST_ERROR: an asynchronous
\* function of the request failed
RequestError(req) ==
    /\ pending[req].io \in {"sendComplete", "headers", "data", "read"}
    /\ pending' = StoreError(req)

\* WINHTTP_CALLBACK_STATUS_SENDREQUEST_COMPLETE: WinHttpReceiveResponse
SendRequestComplete(req) ==
    /\ pending[req].io = "sendComplete"
    /\ \E received \in BOOLEAN :
           pending' = IF received
                      THEN Store(req, pending[req].state, pending[req].statusCode, "headers")
                      ELSE StoreError(req)

\* WINHTTP_CALLBACK_STATUS_HEADERS_AVAILABLE: the status code is read, the
\* state becomes Receiving, WinHttpQueryDataAvailable starts the reading
HeadersAvailable(req) ==
    /\ pending[req].io = "headers"
    /\ \E statusCode \in {"ok", "httpError", "error"}, reading \in BOOLEAN :
           pending' = IF statusCode = "error" \/ ~reading
                      THEN StoreError(req)
                      ELSE Store(req, "Receiving", statusCode, "data")

\* WINHTTP_CALLBACK_STATUS_DATA_AVAILABLE: no byte ends the request, else
\* WinHttpReadData
DataAvailable(req) ==
    /\ pending[req].io = "data"
    /\ \/ pending' = Store(req, "Complete", pending[req].statusCode, "stopped")
       \/ /\ pending[req].chunks < MaxChunks
          /\ \E read \in BOOLEAN :
                 pending' = IF read
                            THEN [pending EXCEPT ![req].io = "read", ![req].chunks = @ + 1]
                            ELSE StoreError(req)

\* WINHTTP_CALLBACK_STATUS_READ_COMPLETE: WinHttpQueryDataAvailable
ReadComplete(req) ==
    /\ pending[req].io = "read"
    /\ \E reading \in BOOLEAN :
           pending' = IF reading
                      THEN Store(req, pending[req].state, pending[req].statusCode, "data")
                      ELSE StoreError(req)

\* HTTPStatusCallback(hRequest, dwContext, dwInternetStatus, ...): no case
\* invokes the completion callback
HTTPStatusCallback(req) ==
    /\ req \in DOMAIN pending
    /\ \/ RequestError(req)
       \/ SendRequestComplete(req)
       \/ HeadersAvailable(req)
       \/ DataAvailable(req)
       \/ ReadComplete(req)
    /\ UNCHANGED calls
    /\ UNCHANGED <<managerVars, packageVars, callVars, jitVars>>

\* The poll of the base class finds req Complete: the completion callback
\* runs with the request's status and CloseRequest releases it.
CompleteRequest(req) ==
    /\ req \in DOMAIN pending
    /\ pending[req].state = "Complete"
    /\ calls' = Invoked(req, pending[req].statusCode)
    /\ pending' = Erase(req)
    /\ UNCHANGED <<managerVars, packageVars, callVars, jitVars>>

\* The poll of the base class finds req past its time: the completion
\* callback runs with a timeout status and CloseRequest releases it.
TimeoutRequest(req) ==
    /\ req \in DOMAIN pending
    /\ pending[req].state # "Complete"
    /\ calls' = Invoked(req, "timeout")
    /\ pending' = Erase(req)
    /\ UNCHANGED <<managerVars, packageVars, callVars, jitVars>>

DownloaderNext ==
    \/ CreateRequest
    \/ \E req \in Requests : HTTPStatusCallback(req)
    \/ \E req \in Requests : CompleteRequest(req)
    \/ \E req \in Requests : TimeoutRequest(req)

\* the downloader after Initialize, with no request
DownloaderInit ==
    /\ PluginManagerUnused
    /\ PackageManagerIdle
    /\ DownloaderIdle
    /\ JitUnused
    /\ NoCallMade

DownloaderSpec == DownloaderInit /\ [][DownloaderNext]_vars

(* ------------------------------ C20 ------------------------------------ *)
\* the downloader is done with req
Finished(req) == req \in Requests /\ req \notin DOMAIN pending

\* C20: for every request handed to the downloader the completion callback
\* is invoked exactly once, on every path of StartRequest and of the status
\* callback: once the downloader is done with a request its callback has run
\* once.
CallbackExactlyOnce ==
    \A req \in Requests : Finished(req) => Len(calls[req]) = 1

(* --------------------------- RemoveDuplicates --------------------------- *)
\* the entries of the containers: a name and what else an entry carries
DedupEntries == [name : 1..2, optional : BOOLEAN]

\* the containers RemoveDuplicates is called with
DedupInit ==
    /\ PluginManagerUnused
    /\ PackageManagerIdle
    /\ DownloaderIdle
    /\ JitUnused
    /\ lastCall \in {[op |-> "RemoveDuplicates", returned |-> "no", cnt |-> cnt, input |-> cnt] :
                        cnt \in SeqsUpTo(DedupEntries, MaxCnt)}

\* bool RemoveDuplicates(Cnt& cnt, Pr cmp): cnt becomes the result, and the
\* sizes before and after are compared
RemoveDuplicatesCall ==
    /\ lastCall.op = "RemoveDuplicates"
    /\ lastCall.returned = "no"
    /\ LET size   == Len(lastCall.cnt)
           result == RemoveDuplicates(lastCall.cnt, 1, <<>>)
       IN lastCall' = [lastCall EXCEPT !.cnt = result,
                                       !.returned = IF Len(result) # size THEN "true" ELSE "false"]
    /\ UNCHANGED <<managerVars, packageVars, downloaderVars, jitVars>>

DedupNext == RemoveDuplicatesCall

DedupSpec == DedupInit /\ [][DedupNext]_vars

(* ------------------------------ C30 ------------------------------------ *)
\* the places of input that hold the first entry of their name
FirstOccurrences(input) ==
    {i \in DOMAIN input : \A k \in 1..(i - 1) : input[k].name # input[i].name}

\* the j-th smallest member of the set I of places
NthOf(I, j) == CHOOSE i \in I : Cardinality({k \in I : k <= i}) = j

\* C30: RemoveDuplicates leaves a subsequence of its input that contains, in
\* input order, exactly the first occurrence of each equivalence class under
\* the comparator, and it returns true exactly when at least one element was
\* removed.
RemoveDuplicatesFirstWins ==
    (lastCall.op = "RemoveDuplicates" /\ lastCall.returned # "no") =>
        LET I == FirstOccurrences(lastCall.input)
        IN /\ Len(lastCall.cnt) = Cardinality(I)
           /\ \A j \in DOMAIN lastCall.cnt : lastCall.cnt[j] = lastCall.input[NthOf(I, j)]
           /\ lastCall.returned = "true" <=> Len(lastCall.cnt) < Len(lastCall.input)

\* a container with the same name three times, differing otherwise, was
\* reduced to its first entry
RemoveDuplicatesFirstWinsWitness ==
    /\ lastCall.op = "RemoveDuplicates"
    /\ lastCall.returned = "true"
    /\ Len(lastCall.input) = 3
    /\ lastCall.input[1].name = lastCall.input[3].name
    /\ lastCall.input[1] # lastCall.input[3]
    /\ Len(lastCall.cnt) = 2

(* ------------------------------ C29 ------------------------------------ *)
\* the local packages read from module descriptors
LocalModules == {i \in DOMAIN pkgLocal : IsModule(disk[pkgLocal[i].path])}

\* no local language module has the reserved language "plugin"
NoReservedLanguage == \A i \in LocalModules : pkgLocal[i].type # PluginType

\* C29: after LoadLocalPackages, no two local language-module packages have
\* the same language (type), and no language-module package has the reserved
\* language "plugin".
ModuleLanguagesUnique ==
    LocalLoaded =>
        /\ \A i, j \in LocalModules : i # j => pkgLocal[i].type # pkgLocal[j].type
        /\ NoReservedLanguage

(* ------------------------------ C21 ------------------------------------ *)
\* the highest version of a set of versions, NoVersion for the empty set
Highest(versions) ==
    IF versions = {} THEN NoVersion
    ELSE CHOOSE v \in versions : \A w \in versions : w <= v

\* the version an install or update is about: versionReq if given, else the
\* latest version
ChosenVersion(package, versionReq) ==
    IF versionReq # NoVersion THEN versionReq ELSE Highest(package.versions)

\* InstallPackage(remote, versionReq) was called
InstallCalled == lastCall.op = "InstallPackage" /\ lastCall.remote.name # 0

\* C21: InstallPackage(remote, versionReq) creates exactly one download
\* request, to the first mirror of the chosen version (versionReq if given,
\* else the latest version), and creates no request and returns false when a
\* local package with the same name exists, when versionReq is not in the
\* remote package's version set, or when the chosen version does not support
\* the host platform.
InstallCreatesOneRequest ==
    InstallCalled =>
        LET package == lastCall.remote
            req     == lastCall.requiredVersion
            chosen  == ChosenVersion(package, req)
        IN IF \/ lastCall.installed
              \/ req # NoVersion /\ req \notin package.versions
              \/ chosen \in package.versions /\ chosen \notin package.supported
           THEN lastCall.requests = {} /\ ~lastCall.returned
           ELSE lastCall.requests = {[name |-> package.name, type |-> package.type,
                                      version |-> chosen, mirror |-> 1]}

(* ------------------------------ C22 ------------------------------------ *)
\* UpdatePackage(local, versionReq) was called
UpdateCalled == lastCall.op = "UpdatePackage" /\ lastCall.local.name # 0

\* the update started a download: it went on to DownloadPackage
DownloadStarted == lastCall.download # NoVersion

\* no download without a remote counterpart; without versionReq a download
\* only for a latest version strictly above the installed one
UpdateNeedsRemoteAndNewer ==
    /\ lastCall.remote.name = 0 => ~DownloadStarted
    /\ (lastCall.requiredVersion = NoVersion /\ DownloadStarted) =>
           Highest(lastCall.remote.versions) > lastCall.local.version

\* the versionReq of the update is a version of the remote counterpart
VersionReqExists ==
    /\ lastCall.requiredVersion # NoVersion
    /\ lastCall.remote.name # 0
    /\ lastCall.requiredVersion \in lastCall.remote.versions

\* C22 as stated: UpdatePackage(local, versionReq) starts no download when the
\* package has no remote counterpart; without versionReq it starts a download
\* only when the remote latest version is strictly greater than the installed
\* version; with a versionReq that exists remotely it starts a download
\* whether that version is higher than, equal to or lower than the installed
\* one.
UpdateDownloadsAsStated ==
    UpdateCalled =>
        /\ UpdateNeedsRemoteAndNewer
        /\ VersionReqExists => DownloadStarted

\* C22: UpdatePackage(local, versionReq) starts no download when the package
\* has no remote counterpart; without versionReq it starts a download only
\* when the remote latest version is strictly greater than the installed
\* version; with a versionReq that exists remotely and supports the host
\* platform it starts a download of that version whether it is higher than,
\* equal to or lower than the installed one.
UpdateDownloads ==
    UpdateCalled =>
        /\ UpdateNeedsRemoteAndNewer
        /\ (VersionReqExists /\ lastCall.requiredVersion \in lastCall.remote.supported) =>
               lastCall.download = lastCall.requiredVersion

\* an update to a required version below the installed one started a download
UpdateDownloadsWitness ==
    /\ UpdateCalled
    /\ VersionReqExists
    /\ lastCall.requiredVersion \in lastCall.remote.supported
    /\ lastCall.requiredVersion < lastCall.local.version
    /\ DownloadStarted
    /\ lastCall.requests # {}

(* ------------------------------ C28 ------------------------------------ *)
\* InstallAllPackages read its manifest file
InstallAllCalled == lastCall.op = "InstallAllPackages" /\ lastCall.readable

\* a download was started for the manifest entry
DownloadStartedFor(e) == \E q \in lastCall.requests : q.name = e.package.name

\* C28: InstallAllPackages with the reinstall flag set reinstalls the packages
\* that are already installed: it starts a download for every manifest entry
\* whose key equals its name, including names present in the local set.
ReinstallDownloadsInstalled ==
    (InstallAllCalled /\ lastCall.reinstall) =>
        \A e \in lastCall.manifest : e.key = e.package.name => DownloadStartedFor(e)

(* ------------------------------ C27 ------------------------------------ *)
\* the entries of the written manifest under the key
EntriesOf(name) == {e \in lastCall.manifest : e.key = name}

\* C27: SnapshotPackages with a non-empty local set writes a manifest whose
\* key set equals the set of local package names and whose entry for each
\* name carries that name, the package's type and its installed version; with
\* an empty local set it writes no file.
SnapshotMatchesLocalSet ==
    lastCall.op = "SnapshotPackages" =>
        LET local == lastCall.local
        IN IF local = <<>> THEN ~lastCall.written
           ELSE /\ lastCall.written
                /\ {e.key : e \in lastCall.manifest} = {local[i].name : i \in DOMAIN local}
                /\ \A i \in DOMAIN local :
                       EntriesOf(local[i].name) =
                           {[key |-> local[i].name,
                             package |-> [name |-> local[i].name, type |-> local[i].type,
                                          versions |-> {local[i].version}]]}

\* a snapshot of a plugin and a language module was written
SnapshotMatchesLocalSetWitness ==
    /\ lastCall.op = "SnapshotPackages"
    /\ lastCall.written
    /\ Len(lastCall.local) = 2
    /\ \E i, j \in DOMAIN lastCall.local :
           lastCall.local[i].type = PluginType /\ lastCall.local[j].type # PluginType

(* ----------------------- the ExtractPackage specification --------------- *)
ExtractInit ==
    /\ PluginManagerUnused
    /\ PackageManagerIdle
    /\ DownloaderIdle
    /\ JitUnused
    /\ lastCall \in {[op |-> "ExtractPackage", returned |-> FALSE, archive |-> archive,
                      error |-> "", written |-> {}] : archive \in Archives}

ExtractPackageCall ==
    /\ lastCall.op = "ExtractPackage"
    /\ ~lastCall.returned
    /\ lastCall' = [lastCall EXCEPT !.returned = TRUE,
                                    !.error = ExtractPackage(lastCall.archive).error,
                                    !.written = ExtractPackage(lastCall.archive).written]
    /\ UNCHANGED <<managerVars, packageVars, downloaderVars, jitVars>>

ExtractNext == ExtractPackageCall

ExtractSpec == ExtractInit /\ [][ExtractNext]_vars

(* ------------------------------ C23 ------------------------------------ *)
\* ExtractPackage returned for an archive in which no entry has the expected
\* descriptor extension
ExtractedWithoutDescriptor ==
    /\ lastCall.op = "ExtractPackage"
    /\ lastCall.returned
    /\ \A i \in DOMAIN lastCall.archive : ~lastCall.archive[i].descriptor

\* the stat of an entry of the archive could not be read
StatUnreadable == \E i \in DOMAIN lastCall.archive : lastCall.archive[i].fault = "stat"

\* C23 as stated: ExtractPackage on an archive in which no entry has the
\* expected descriptor extension returns a missing-descriptor error and
\* writes no file or directory under the destination.
MissingDescriptorAsStated ==
    ExtractedWithoutDescriptor =>
        /\ lastCall.error = "Package descriptor missing"
        /\ lastCall.written = {}

\* C23: ExtractPackage on an archive in which no entry has the expected
\* descriptor extension returns an error, the missing-descriptor error unless
\* the stat of an entry could not be read (then that error), and writes no
\* file or directory.
MissingDescriptor ==
    ExtractedWithoutDescriptor =>
        /\ lastCall.error = IF StatUnreadable THEN "Error getting file stat"
                            ELSE "Package descriptor missing"
        /\ lastCall.written = {}

\* an archive of two readable entries, neither a descriptor, was refused
MissingDescriptorWitness ==
    /\ ExtractedWithoutDescriptor
    /\ Len(lastCall.archive) = 2
    /\ \A i \in DOMAIN lastCall.archive : lastCall.archive[i].fault = "none"
    /\ lastCall.error = "Package descriptor missing"

(* ------------------------------ C24 ------------------------------------ *)
\* C24: for every archive, ExtractPackage writes no file outside the
\* destination directory: an entry whose name contains '..' components or is
\* an absolute path is rejected and not written.
NoWriteOutsideDestination ==
    (lastCall.op = "ExtractPackage" /\ lastCall.returned) =>
        \A w \in lastCall.written : w.place = "inside"

(* ------------------------------ C25 ------------------------------------ *)
\* a download callback was the last call
CallbackRan == lastCall.op = "DownloadCallback"

\* <baseDir>/<folder>/<name> of the request of the last callback
FinalDirectory == PackageDir(Folder(lastCall.request), lastCall.request.name)

\* the last callback left its package directory as it was
FinalDirectoryUntouched ==
    DirContent(disk, FinalDirectory) = DirContent(lastCall.before, FinalDirectory)

\* C25: a download callback renames its staging directory to
\* <baseDir>/<folder>/<name> only when the status is OK, the content type is
\* application/zip and extraction returned no error; in every other case the
\* package directory is left untouched, and the other outstanding downloads
\* are still outstanding, to be promoted by their own callbacks.
PromotionOnlyOnSuccess ==
    CallbackRan =>
        /\ lastCall.promoted =>
               lastCall.statusCode = "ok" /\ lastCall.zip /\ lastCall.error = ""
        /\ ~lastCall.promoted => FinalDirectoryUntouched
        /\ downloads = lastCall.others

(* ------------------------------ C26 ------------------------------------ *)
\* the last two calls: a download of a package that was not installed, renamed
\* to its package directory, then Uninstall of the same package
InstallThenUninstall ==
    /\ lastCall.op = "UninstallPackage"
    /\ lastCall.found
    /\ lastCall.previous.op = "DownloadCallback"
    /\ lastCall.previous.promoted
    /\ ~lastCall.previous.installed
    /\ lastCall.previous.request.name = lastCall.name

\* the package directories under <baseDir>/plugins and <baseDir>/modules
PackageDirs == {PackageDir(folder, n) : folder \in {"plugins", "modules"}, n \in Names}

\* C26: for a package p that is not installed, a successful Install(p)
\* followed by Uninstall(p) leaves <baseDir>/{plugins,modules}/<p.name>
\* non-existent and the directory of every other installed package as it was
\* before the install.
InstallUninstallRoundTrip ==
    InstallThenUninstall =>
        \A dir \in PackageDirs :
            IF dir.name = lastCall.name
            THEN DirContent(disk, dir) = <<>>
            ELSE DirContent(lastCall.previous.before, dir) # <<>> =>
                     DirContent(disk, dir) = DirContent(lastCall.previous.before, dir)

(* --------------- JitCallback (plugify/jit/callback.cpp) ------------------ *)
PointerSize == 8    \* sizeof(uintptr_t)

\* asmjit::TypeId of an argument, as GetJitFunc tells them apart:
\* TypeUtils::isInt, TypeUtils::isFloat, anything else
TypeIds == {"int", "float", "wide"}

\* asmjit::TypeId of a return value: none, an integer, a float, and the 128-bit
\* vectors of integers and of floats
RetTypeIds == {"void", "int", "float", "intvec", "floatvec"}

\* asmjit::FuncSignature: the return type and up to MaxArgs argument types
Signatures == [ret : RetTypeIds, args : SeqsUpTo(TypeIds, MaxArgs)]

\* the values of arguments and of returns
Values == 1..MaxValue

\* _rt.lock(): the runtime when the callback refers to it and it is alive
Lock(callback, runtime) == callback.rt /\ runtime.alive

\* mutant: every argument type is taken
ArgumentsFitAny(sig) == TRUE

\* the first loop over the arguments: every one is an integer or a float
ArgumentsFit(sig) == \A i \in DOMAIN sig.args : sig.args[i] \in {"int", "float"}

\* the code rt->add hands out: its address and what was compiled into it
Stub(address, sig, method, handler, data) ==
    [address |-> address, sig |-> sig, method |-> method, handler |-> handler, data |-> data]

\* mutant: no look at _function, code is emitted at every call
GetJitFuncEmitsAgain(callback, runtime, sig, method, handler, data, err) ==
    IF ~Lock(callback, runtime)
    THEN [callback |-> [callback EXCEPT !.errorCode = "JitRuntime invalid"],
          runtime |-> runtime, returned |-> NullAddr]
    ELSE [callback |-> [callback EXCEPT !.userData = data, !.function = runtime.added + 1],
          runtime |-> [runtime EXCEPT
                           !.added = runtime.added + 1,
                           !.code = runtime.code \cup
                               {Stub(runtime.added + 1, sig, method, handler, data)}],
          returned |-> runtime.added + 1]

\* JitCallback::GetJitFunc(sig, method, callback, data); err is whether rt->add
\* reports an error. The callback and the runtime afterwards, and the address
\* returned.
GetJitFunc(callback, runtime, sig, method, handler, data, err) ==
    IF callback.function # NullAddr
    THEN [callback |-> callback, runtime |-> runtime, returned |-> callback.function]
    ELSE IF ~Lock(callback, runtime)
    THEN [callback |-> [callback EXCEPT !.errorCode = "JitRuntime invalid"],
          runtime |-> runtime, returned |-> NullAddr]
    ELSE IF ~ArgumentsFit(sig)
    THEN [callback |-> [callback EXCEPT
                            !.userData = data,
                            !.errorCode = "Parameters wider than 64bits not supported"],
          runtime |-> runtime, returned |-> NullAddr]
    ELSE IF err
    THEN [callback |-> [callback EXCEPT !.userData = data, !.function = NullAddr,
                                        !.errorCode = "asmjit error"],
          runtime |-> runtime, returned |-> NullAddr]
    ELSE [callback |-> [callback EXCEPT !.userData = data, !.function = runtime.added + 1],
          runtime |-> [runtime EXCEPT
                           !.added = runtime.added + 1,
                           !.code = runtime.code \cup
                               {Stub(runtime.added + 1, sig, method, handler, data)}],
          returned |-> runtime.added + 1]

\* plugify::ValueType, as far as the signature depends on it: no value, an
\* integer, a float, a 128-bit vector, and an object handed over by pointer
ValueTypes == {"void", "int", "float", "vector", "object"}

\* the types a parameter can have
ParamTypes == ValueTypes \ {"void"}

\* MethodRef: the return type and the parameter types, each by value or by reference
MethodRefs ==
    [ret : ValueTypes, params : SeqsUpTo([type : ParamTypes, ref : BOOLEAN], MaxArgs)]

\* GetValueTypeId(type): ValueType::Pointer and the objects are pointers
GetValueTypeId(type) ==
    CASE type \in {"int", "pointer", "object"} -> "int"
      [] type = "float" -> "float"
      [] OTHER -> "wide"

\* GetRetTypeId(type)
GetRetTypeId(type) ==
    CASE type \in {"int", "pointer", "object"} -> "int"
      [] type = "float" -> "float"
      [] type = "vector" -> "floatvec"
      [] OTHER -> "void"

\* the signature GetJitFunc(method, callback, data, hidden) builds: the return
\* type (a pointer with a hidden parameter), the hidden parameter first, then
\* every parameter, a pointer when it is a reference
SignatureOf(method, isHiddenParam) ==
    [ret  |-> GetRetTypeId(IF isHiddenParam THEN "pointer" ELSE method.ret),
     args |-> (IF isHiddenParam THEN <<GetValueTypeId(method.ret)>> ELSE <<>>)
              \o [i \in DOMAIN method.params |->
                     GetValueTypeId(IF method.params[i].ref THEN "pointer"
                                    ELSE method.params[i].type)]]

\* mutant: release without asking whether the runtime is still there
DestructorUnlocked(callback, runtime) ==
    IF callback.function # NullAddr
    THEN [runtime |-> [runtime EXCEPT
                           !.code = {c \in runtime.code : c.address # callback.function}],
          released |-> TRUE]
    ELSE [runtime |-> runtime, released |-> FALSE]

\* JitCallback::~JitCallback: rt->release(_function) when there is a function
\* and the runtime can be locked
Destructor(callback, runtime) ==
    IF callback.function # NullAddr /\ Lock(callback, runtime)
    THEN [runtime |-> [runtime EXCEPT
                           !.code = {c \in runtime.code : c.address # callback.function}],
          released |-> TRUE]
    ELSE [runtime |-> runtime, released |-> FALSE]

(* ------------------- the trampoline specification ------------------------ *)
\* the signatures and methods of the trampoline specification
LifecycleSignatures ==
    { [ret |-> "int",  args |-> <<"int", "float">>],
      [ret |-> "void", args |-> <<"wide">>],
      [ret |-> "int",  args |-> <<"int", "wide">>] }

LifecycleMethods ==
    {m \in MethodRefs : /\ m.ret = "object"
                        /\ Len(m.params) <= 1
                        /\ \A i \in DOMAIN m.params : m.params[i].type = "vector"}

NoMethod == [ret |-> "void", params |-> <<>>]

\* std::make_shared<asmjit::JitRuntime>()
CreateRuntime ==
    /\ ~jitRuntime.alive
    /\ jitRuntime.added = 0
    /\ jitRuntime' = [jitRuntime EXCEPT !.alive = TRUE]
    /\ lastCall' = [op |-> "JitRuntime"]
    /\ UNCHANGED jitCallbacks
    /\ UNCHANGED <<managerVars, packageVars, downloaderVars>>

\* the last shared_ptr to the runtime goes away
ReleaseRuntime ==
    /\ jitRuntime.alive
    /\ jitRuntime' = [jitRuntime EXCEPT !.alive = FALSE]
    /\ lastCall' = [op |-> "~JitRuntime"]
    /\ UNCHANGED jitCallbacks
    /\ UNCHANGED <<managerVars, packageVars, downloaderVars>>

\* JitCallback::JitCallback(std::weak_ptr<asmjit::JitRuntime> rt)
ConstructCallback(k) ==
    /\ jitCallbacks[k].state = "none"
    /\ jitRuntime.alive \/ jitRuntime.added > 0
    /\ jitCallbacks' = [jitCallbacks EXCEPT ![k] = [NoCallback EXCEPT !.state = "live",
                                                                      !.rt = TRUE]]
    /\ lastCall' = [op |-> "JitCallback", callback |-> k]
    /\ UNCHANGED jitRuntime
    /\ UNCHANGED <<managerVars, packageVars, downloaderVars>>

\* JitCallback::JitCallback(JitCallback&& other): j is constructed from k,
\* which keeps neither its function nor its user data nor its runtime
MoveCallback(k, j) ==
    /\ jitCallbacks[k].state = "live"
    /\ jitCallbacks[j].state = "none"
    /\ jitCallbacks' = [jitCallbacks EXCEPT
                            ![j] = [jitCallbacks[k] EXCEPT !.errorCode = ""],
                            ![k] = [jitCallbacks[k] EXCEPT !.rt = FALSE,
                                                           !.function = NullAddr,
                                                           !.userData = NullAddr]]
    /\ lastCall' = [op |-> "JitCallback&&", callback |-> j, other |-> k]
    /\ UNCHANGED jitRuntime
    /\ UNCHANGED <<managerVars, packageVars, downloaderVars>>

\* JitCallback::~JitCallback
DestroyCallback(k) ==
    /\ jitCallbacks[k].state = "live"
    /\ LET result == Destructor(jitCallbacks[k], jitRuntime)
       IN /\ jitRuntime' = result.runtime
          /\ lastCall' = [op |-> "~JitCallback", callback |-> k,
                          function |-> jitCallbacks[k].function,
                          alive |-> jitRuntime.alive,
                          released |-> result.released]
    /\ jitCallbacks' = [jitCallbacks EXCEPT ![k] = [NoCallback EXCEPT !.state = "destroyed"]]
    /\ UNCHANGED <<managerVars, packageVars, downloaderVars>>

\* what a call of GetJitFunc on callback k leaves behind
GetJitFuncCalled(k, sig, method, isHiddenParam, handler, data, err) ==
    LET result == GetJitFunc(jitCallbacks[k], jitRuntime, sig, method, handler, data, err)
    IN /\ jitCallbacks' = [jitCallbacks EXCEPT ![k] = result.callback]
       /\ jitRuntime' = result.runtime
       /\ lastCall' = [op |-> "GetJitFunc", callback |-> k, sig |-> sig,
                       method |-> method, hidden |-> isHiddenParam,
                       handler |-> handler, data |-> data,
                       function |-> jitCallbacks[k].function,
                       locked |-> Lock(jitCallbacks[k], jitRuntime),
                       added |-> jitRuntime.added,
                       returned |-> result.returned]
       /\ UNCHANGED <<managerVars, packageVars, downloaderVars>>

\* the handlers and user data of the trampoline specification
LifecycleHandlers == {<<1, 1>>, <<2, NullAddr>>}

\* GetJitFunc(sig, method, callback, data) on callback k
GetJitFuncSignature(k) ==
    /\ jitCallbacks[k].state = "live"
    /\ \E sig \in LifecycleSignatures, h \in LifecycleHandlers, err \in BOOLEAN :
           GetJitFuncCalled(k, sig, NoMethod, FALSE, h[1], h[2], err)

\* GetJitFunc(method, callback, data, hidden) on callback k
GetJitFuncMethod(k) ==
    /\ jitCallbacks[k].state = "live"
    /\ \E method \in LifecycleMethods, isHiddenParam \in BOOLEAN, err \in BOOLEAN :
           GetJitFuncCalled(k, SignatureOf(method, isHiddenParam), method, isHiddenParam,
                            1, 1, err)

JitInit ==
    /\ PluginManagerUnused
    /\ PackageManagerIdle
    /\ DownloaderIdle
    /\ JitUnused
    /\ NoCallMade

JitNext ==
    \/ CreateRuntime
    \/ ReleaseRuntime
    \/ \E k \in 1..MaxCallbacks : ConstructCallback(k)
    \/ \E k, j \in 1..MaxCallbacks : MoveCallback(k, j)
    \/ \E k \in 1..MaxCallbacks : DestroyCallback(k)
    \/ \E k \in 1..MaxCallbacks : GetJitFuncSignature(k)
    \/ \E k \in 1..MaxCallbacks : GetJitFuncMethod(k)

JitSpec == JitInit /\ [][JitNext]_vars

(* ------------------------------ C31 ------------------------------------ *)
\* the step is a call of GetJitFunc on callback k
GetJitFuncStep(k) == lastCall'.op = "GetJitFunc" /\ lastCall'.callback = k

\* C31: after one successful GetJitFunc on a trampoline (its _function is set,
\* and goes with the trampoline when it is moved), every later GetJitFunc call
\* on it, with any signature, method, handler or user data, returns the same
\* address and adds no new code to the JIT runtime.
EmissionIsOneShot ==
    [][\A k \in 1..MaxCallbacks :
           GetJitFuncStep(k) /\ jitCallbacks[k].function # NullAddr =>
               /\ lastCall'.returned = jitCallbacks[k].function
               /\ jitCallbacks'[k].function = jitCallbacks[k].function
               /\ jitRuntime' = jitRuntime]_vars

\* a second call with another signature, handler and user data than the ones
\* compiled returned the cached address
EmissionIsOneShotWitness ==
    /\ lastCall.op = "GetJitFunc"
    /\ lastCall.function # NullAddr
    /\ lastCall.returned = lastCall.function
    /\ \E c \in jitRuntime.code :
           /\ c.address = lastCall.function
           /\ c.sig # lastCall.sig
           /\ c.handler # lastCall.handler
           /\ c.data # lastCall.data

(* ------------------------------ C32 ------------------------------------ *)
\* C32: when the JIT runtime has been released before a trampoline's first
\* emit, GetJitFunc returns null and records the error "JitRuntime invalid"; a
\* trampoline that emitted before the runtime was released still returns its
\* cached address, and its destructor does not call release on the dead
\* runtime.
ReleasedRuntime ==
    /\ lastCall.op = "GetJitFunc" /\ ~jitRuntime.alive =>
           IF lastCall.function = NullAddr
           THEN /\ lastCall.returned = NullAddr
                /\ jitCallbacks[lastCall.callback].errorCode = "JitRuntime invalid"
                /\ jitRuntime.added = lastCall.added
           ELSE lastCall.returned = lastCall.function
    /\ lastCall.op = "~JitCallback" /\ ~lastCall.alive => ~lastCall.released

\* a trampoline that had emitted was destroyed after the runtime was released
ReleasedRuntimeWitness ==
    /\ lastCall.op = "~JitCallback"
    /\ lastCall.function # NullAddr
    /\ ~lastCall.alive
    /\ \E k \in 1..MaxCallbacks :
           /\ jitCallbacks[k].state = "live"
           /\ jitCallbacks[k].errorCode = "JitRuntime invalid"

(* ------------------------------ C33 ------------------------------------ *)
\* the last call was GetJitFunc with a signature one of whose parameters is
\* neither an integer nor a float
WideParameter ==
    /\ lastCall.op = "GetJitFunc"
    /\ \E i \in DOMAIN lastCall.sig.args : lastCall.sig.args[i] = "wide"

\* the call was refused for the width of a parameter
RefusedForWidth ==
    /\ lastCall.returned = NullAddr
    /\ jitCallbacks[lastCall.callback].errorCode = "Parameters wider than 64bits not supported"
    /\ jitCallbacks[lastCall.callback].function = NullAddr
    /\ jitRuntime.added = lastCall.added

\* every parameter of the method of the last call that is passed by reference
\* is a pointer in the signature
ReferencesArePointers ==
    lastCall.op = "GetJitFunc" =>
        \A i \in DOMAIN lastCall.method.params :
            lastCall.method.params[i].ref =>
                lastCall.sig.args[i + (IF lastCall.hidden THEN 1 ELSE 0)] = "int"

\* C33 (as stated): GetJitFunc on a signature with a parameter that is neither
\* an integer nor a float, and not passed by reference, returns null, records
\* a width error, leaves the function pointer null and adds no code; a
\* by-reference parameter of any type is emitted as a pointer and accepted.
WideParameterRefusedAsStated ==
    /\ WideParameter => RefusedForWidth
    /\ ReferencesArePointers

\* C33: the same, for a trampoline that has not emitted yet and whose runtime
\* is alive.
WideParameterRefused ==
    /\ WideParameter /\ lastCall.function = NullAddr /\ lastCall.locked => RefusedForWidth
    /\ ReferencesArePointers

\* a vector passed by value was refused, and a vector passed by reference was
\* emitted
WideParameterRefusedWitness ==
    /\ WideParameter
    /\ lastCall.function = NullAddr
    /\ lastCall.locked
    /\ Len(lastCall.method.params) = 1
    /\ \E c \in jitRuntime.code :
           /\ Len(c.method.params) = 1
           /\ c.method.params[1].ref
           /\ c.method.params[1].type = "vector"

(* -------------------- the emitted callback (C34) ------------------------- *)
\* Parameters::GetArgumentPtr(idx): the byte offset of the slot of an index
GetArgumentPtr(index) == PointerSize * index

\* mutant: the index register is advanced by one byte per argument
RECURSIVE StoreArgumentsPacked(_, _, _, _)
StoreArgumentsPacked(argsStack, v, argIdx, i) ==
    IF argIdx > Len(v) THEN argsStack
    ELSE StoreArgumentsPacked((i :> v[argIdx]) @@ argsStack, v, argIdx + 1, i + 1)

\* the emitted loop that moves the argument registers into the stack
\* structure: mov/movq [argsStack + i], reg; add i, sizeof(uintptr_t)
RECURSIVE StoreArguments(_, _, _, _)
StoreArguments(argsStack, v, argIdx, i) ==
    IF argIdx > Len(v) THEN argsStack
    ELSE StoreArguments((i :> v[argIdx]) @@ argsStack, v, argIdx + 1, i + PointerSize)

\* retSize in slots: two for the 128-bit vectors, else one
RetSlots(sig) == IF sig.ret \in {"intvec", "floatvec"} THEN 2 ELSE 1

\* what the emitted code returns from the return buffer: nothing, the first
\* slot, or the two slots of a vector
NativeReturn(sig, retStack) ==
    CASE sig.ret = "void" -> <<>>
      [] sig.ret \in {"intvec", "floatvec"} -> <<retStack[0], retStack[PointerSize]>>
      [] OTHER -> <<retStack[0]>>

\* the emitted code called with the native arguments v, where the handler
\* writes the values written into the return buffer: the calls of the handler
\* and the native return
CallStub(stub, v, written) ==
    LET argsStack == StoreArguments(<<>>, v, 1, 0)
        retStack  == [o \in {PointerSize * (j - 1) : j \in 1..RetSlots(stub.sig)} |->
                         written[(o \div PointerSize) + 1]]
    IN [invocations |-> <<[handler |-> stub.handler, method |-> stub.method,
                           data |-> stub.data, params |-> argsStack,
                           count |-> Len(stub.sig.args) % 256]>>,
        returned |-> NativeReturn(stub.sig, retStack)]

\* the methods of the round-trip specification
RoundTripMethods == MethodRefs

\* GetJitFunc on the one callback, with a signature or with a method
EmitCallback ==
    /\ lastCall = NoCall
    /\ \/ \E sig \in Signatures, err \in BOOLEAN :
              GetJitFuncCalled(1, sig, NoMethod, FALSE, 1, 1, err)
       \/ \E method \in RoundTripMethods, isHiddenParam \in BOOLEAN :
              GetJitFuncCalled(1, SignatureOf(method, isHiddenParam), method, isHiddenParam,
                               1, 1, FALSE)

\* the host calls the emitted function: the hidden return pointer first when
\* there is one, then the declared arguments
InvokeCallback ==
    /\ lastCall.op = "GetJitFunc"
    /\ lastCall.returned # NullAddr
    /\ \E stub \in jitRuntime.code :
           /\ stub.address = lastCall.returned
           /\ \E declared \in [1..(Len(stub.sig.args) - (IF lastCall.hidden THEN 1 ELSE 0))
                                  -> Values],
                 pointer \in Values, written \in [1..2 -> Values] :
                  LET v      == (IF lastCall.hidden THEN <<pointer>> ELSE <<>>) \o declared
                      result == CallStub(stub, v, written)
                  IN /\ RetSlots(stub.sig) = 1 => written[2] = 1
                     /\ ~lastCall.hidden => pointer = 1
                     /\ lastCall' = [op |-> "InvokeCallback", stub |-> stub,
                                     hidden |-> lastCall.hidden,
                                     pointer |-> pointer, declared |-> declared,
                                     v |-> v, written |-> written,
                                     invocations |-> result.invocations,
                                     returned |-> result.returned]
    /\ UNCHANGED jitVars
    /\ UNCHANGED <<managerVars, packageVars, downloaderVars>>

RoundTripInit ==
    /\ PluginManagerUnused
    /\ PackageManagerIdle
    /\ DownloaderIdle
    /\ NoCallMade
    /\ jitRuntime = [alive |-> TRUE, added |-> 0, code |-> {}]
    /\ jitCallbacks = [k \in 1..MaxCallbacks |->
                          IF k = 1 THEN [NoCallback EXCEPT !.state = "live", !.rt = TRUE]
                          ELSE NoCallback]

RoundTripNext ==
    \/ EmitCallback
    \/ InvokeCallback

RoundTripSpec == RoundTripInit /\ [][RoundTripNext]_vars

(* ------------------------------ C34 ------------------------------------ *)
\* the emitted callback was called
CallbackInvoked == lastCall.op = "InvokeCallback"

\* C34: for every supported signature with n parameters and every argument
\* tuple v, the emitted callback invokes the handler exactly once with
\* argCount = n and a parameter array whose slot i (at byte offset i * pointer
\* size) holds v[i]; the value the handler writes to the return slot is the
\* native return value, and a hidden return pointer occupies slot 0 with the
\* declared parameters shifted by one slot.
JitRoundTrip ==
    CallbackInvoked =>
        LET n    == Len(lastCall.stub.sig.args)
            call == lastCall.invocations[1]
        IN /\ Len(lastCall.invocations) = 1
           /\ call.handler = lastCall.stub.handler
           /\ call.count = n
           /\ DOMAIN call.params = {i * PointerSize : i \in 0..(n - 1)}
           /\ \A i \in 0..(n - 1) : call.params[GetArgumentPtr(i)] = lastCall.v[i + 1]
           /\ lastCall.stub.sig.ret # "void" =>
                  \A j \in 1..RetSlots(lastCall.stub.sig) :
                      lastCall.returned[j] = lastCall.written[j]
           /\ lastCall.hidden =>
                  /\ call.params[GetArgumentPtr(0)] = lastCall.pointer
                  /\ \A i \in DOMAIN lastCall.declared :
                         call.params[GetArgumentPtr(i)] = lastCall.declared[i]

\* the callback of a method with a hidden return pointer and two parameters
\* was called with different values, and the handler's return came back
JitRoundTripWitness ==
    /\ CallbackInvoked
    /\ lastCall.hidden
    /\ lastCall.pointer = 2
    /\ lastCall.declared = <<1, 2>>
    /\ lastCall.returned = <<2>>

(* --------------- PlugifyProvider (core/plugify_provider.cpp) ------------- *)
\* the plugins a plugin manager can hold: each with a name, a state and the
\* version of its descriptor, no name twice
ProviderPlugins ==
    {ps \in SeqsUpTo([name : 1..2, state : PluginState, version : Versions], 2) :
        \A i, j \in DOMAIN ps : ps[i].name = ps[j].name => i = j}

\* PluginManager::FindPlugin(name): the plugin of that name, NoPackage for none
FindPlugin(plugins, name) ==
    IF FindByName(plugins, name) = 0 THEN NoPackage ELSE plugins[FindByName(plugins, name)]

\* mutant: a plugin that is terminating counts as loaded
IsPluginLoadedOrTerminating(plugify, pluginManager, plugins, name, requiredVersion, minimum) ==
    IF ~plugify \/ ~pluginManager THEN FALSE
    ELSE LET plugin == FindPlugin(plugins, name)
         IN IF plugin = NoPackage THEN FALSE
            ELSE IF plugin.state \notin {"Loaded", "Running", "Terminating"} THEN FALSE
            ELSE IF requiredVersion # NoVersion
            THEN IF minimum THEN plugin.version >= requiredVersion
                 ELSE plugin.version = requiredVersion
            ELSE TRUE

\* PlugifyProvider::IsPluginLoaded(name, requiredVersion, minimum); plugify and
\* pluginManager are whether _plugify.lock() and GetPluginManager().lock()
\* give an object
IsPluginLoaded(plugify, pluginManager, plugins, name, requiredVersion, minimum) ==
    IF ~plugify \/ ~pluginManager THEN FALSE
    ELSE LET plugin == FindPlugin(plugins, name)
         IN IF plugin = NoPackage THEN FALSE
            ELSE IF plugin.state # "Loaded" /\ plugin.state # "Running" THEN FALSE
            ELSE IF requiredVersion # NoVersion
            THEN IF minimum THEN plugin.version >= requiredVersion
                 ELSE plugin.version = requiredVersion
            ELSE TRUE

\* a provider, the plugins of its plugin manager, and a question not asked yet
ProviderInit ==
    /\ PluginManagerUnused
    /\ PackageManagerIdle
    /\ DownloaderIdle
    /\ JitUnused
    /\ lastCall \in [op : {"IsPluginLoaded"}, returned : {FALSE}, result : {FALSE},
                     plugify : BOOLEAN, pluginManager : BOOLEAN, plugins : ProviderPlugins,
                     name : 1..2, requiredVersion : {NoVersion} \cup Versions,
                     minimum : BOOLEAN]

\* the call of IsPluginLoaded
IsPluginLoadedCall ==
    /\ lastCall.op = "IsPluginLoaded"
    /\ ~lastCall.returned
    /\ lastCall' = [lastCall EXCEPT
                        !.returned = TRUE,
                        !.result = IsPluginLoaded(lastCall.plugify, lastCall.pluginManager,
                                                  lastCall.plugins, lastCall.name,
                                                  lastCall.requiredVersion, lastCall.minimum)]
    /\ UNCHANGED <<managerVars, packageVars, downloaderVars, jitVars>>

ProviderNext == IsPluginLoadedCall

ProviderSpec == ProviderInit /\ [][ProviderNext]_vars

(* ------------------------------ C35 ------------------------------------ *)
\* C35: IsPluginLoaded(name, version, minimum) returns true exactly when the
\* runtime and the plugin manager are alive, a plugin with that name exists,
\* its state is Loaded or Running, and, when a version is given, the plugin's
\* version is >= it if minimum is set and == it otherwise.
IsPluginLoadedExact ==
    lastCall.op = "IsPluginLoaded" /\ lastCall.returned =>
        (lastCall.result <=>
            /\ lastCall.plugify
            /\ lastCall.pluginManager
            /\ \E i \in DOMAIN lastCall.plugins :
                   /\ lastCall.plugins[i].name = lastCall.name
                   /\ lastCall.plugins[i].state \in {"Loaded", "Running"}
                   /\ lastCall.requiredVersion # NoVersion =>
                          IF lastCall.minimum
                          THEN lastCall.plugins[i].version >= lastCall.requiredVersion
                          ELSE lastCall.plugins[i].version = lastCall.requiredVersion)

\* the question was answered with no for a terminating plugin of a high enough
\* version, next to a running one of another name
IsPluginLoadedExactWitness ==
    /\ lastCall.op = "IsPluginLoaded"
    /\ lastCall.returned
    /\ ~lastCall.result
    /\ lastCall.plugify
    /\ lastCall.pluginManager
    /\ lastCall.minimum
    /\ \E i, j \in DOMAIN lastCall.plugins :
           /\ lastCall.plugins[i].name = lastCall.name
           /\ lastCall.plugins[i].state = "Terminating"
           /\ lastCall.plugins[i].version > lastCall.requiredVersion
           /\ lastCall.requiredVersion # NoVersion
           /\ lastCall.plugins[j].state = "Running"


(* --------------- StartRequest and the WinHTTP worker thread ------------- *)
\* StartRequest in the steps the worker thread can see: lastCall holds the
\* position of the thread that runs StartRequest.
Starting == lastCall.op = "StartRequest" /\ lastCall.pc = "sent"

\* StartRequest up to the return of WinHttpSendRequest (lines 190-245): the
\* request is sent and WinHTTP notifies the worker thread from now on, or the
\* send fails at once and statusCode = HTTP_STATUS_ERROR and
\* state.store(Complete) follow in the same thread.
SendRequest(req, outcome) ==
    /\ ~Starting
    /\ Len(calls) < MaxDownloads
    /\ calls' = Append(calls, <<>>)
    /\ pending' = pending @@
           (req :> IF outcome = "sendFailed"
                   THEN [state |-> "Complete", statusCode |-> "error",
                         io |-> "stopped", chunks |-> 0]
                   ELSE [state |-> "Pending", statusCode |-> "none",
                         io |-> "sendComplete", chunks |-> 0])
    /\ lastCall' = [op |-> "StartRequest", request |-> req, outcome |-> outcome,
                    pc |-> "sent", before |-> "Pending"]
    /\ UNCHANGED <<managerVars, packageVars, jitVars>>

\* StartRequest, lines 246-248: req->state = Started, whatever the state is
\* by now, and the return of true
StoreStarted ==
    /\ Starting
    /\ pending' = [pending EXCEPT ![lastCall.request].state = "Started"]
    /\ lastCall' = [lastCall EXCEPT !.pc = "returned",
                                    !.before = pending[lastCall.request].state]
    /\ UNCHANGED calls
    /\ UNCHANGED <<managerVars, packageVars, jitVars>>

\* StartRequest on the paths that return false (lines 205-229)
StartRequestFails ==
    /\ ~Starting
    /\ Len(calls) < MaxDownloads
    /\ \E outcome \in {"crackFailed", "connectFailed", "openFailed"} :
           StartRequest(InternalCreateRequest, outcome)
    /\ UNCHANGED <<managerVars, packageVars, callVars, jitVars>>

\* the poll of the base class, which cannot run while CreateRequest holds the
\* lock of the pending requests
PollRequest(req) ==
    /\ ~Starting
    /\ \/ CompleteRequest(req)
       \/ TimeoutRequest(req)

StartNext ==
    \/ \E outcome \in {"sendFailed", "sent"} : SendRequest(InternalCreateRequest, outcome)
    \/ StoreStarted
    \/ StartRequestFails
    \/ \E req \in Requests : HTTPStatusCallback(req)
    \/ \E req \in Requests : PollRequest(req)

StartSpec == DownloaderInit /\ [][StartNext]_vars

(* ------------------------------ C40 ------------------------------------ *)
\* C40: once the state of a request is Complete it never changes to another
\* state while the request exists, under every interleaving of StartRequest
\* with the status callback of the worker thread; a send that fails at once
\* leaves the request Complete when StartRequest returns.
CompleteIsFinal ==
    [][\A req \in DOMAIN pending \cap DOMAIN pending' :
           pending[req].state = "Complete" => pending'[req].state = "Complete"]_vars


(* ------------------------------ C39 ------------------------------------ *)
\* C39: after FindDependencies no remote package recorded in missedPackages
\* has the name of a local package, so that InstallPackage does not reject
\* it as already installed.
MissedNotInstalled ==
    pkgPc = "ready" =>
        \A key \in DOMAIN missedPackages :
            FindByName(pkgLocal, missedPackages[key].package.name) = 0


(* ------------------------------ C38 ------------------------------------ *)
\* C38: after FindDependencies conflictedPackages holds each local plugin at
\* most once, also when several required dependencies of the plugin cannot
\* be resolved.
ConflictedOnce ==
    pkgPc = "ready" =>
        \A i \in DOMAIN conflictedPackages : \A k \in DOMAIN conflictedPackages :
            conflictedPackages[i] = conflictedPackages[k] => i = k


(* --------------------- UninstallConflictedPackages ---------------------- *)
\* what a reference of _conflictedPackages denotes: a place of _localPackages
ConflictedRefs(local, conflicted) ==
    [k \in DOMAIN conflicted |-> FindByName(local, conflicted[k])]

\* package.path.parent_path() of the local packages, by name
ParentPaths(files, local) ==
    [name \in {local[l].name : l \in DOMAIN local} |->
         files[local[FindByName(local, name)].path].dir]

\* The loop of UninstallConflictedPackages from reference k on. A reference
\* to a place the list still has reads the package that is at the place by
\* now; UninstallPackage removes its directory and erases it, which moves the
\* packages behind it one place down. A reference to a place past the end
\* of the list is dangling: the call does nothing, or removes the directory
\* the destroyed package had (worked[k]) and erases nothing.
RECURSIVE UninstallConflicted(_, _, _, _, _, _, _)
UninstallConflicted(files, local, paths, conflicted, refs, worked, k) ==
    IF k > Len(refs) THEN [disk |-> files, local |-> local]
    ELSE IF refs[k] <= Len(local)
    THEN IF worked[k]
         THEN UninstallConflicted(RemoveFolder(files, paths[local[refs[k]].name]),
                                  RemoveAt(local, refs[k]),
                                  paths, conflicted, refs, worked, k + 1)
         ELSE UninstallConflicted(files, local, paths, conflicted, refs, worked, k + 1)
    ELSE UninstallConflicted(IF worked[k] THEN RemoveFolder(files, paths[conflicted[k]])
                             ELSE files,
                             local, paths, conflicted, refs, worked, k + 1)

\* the directories that hold a file
Directories(files) == {files[i].dir : i \in DOMAIN files}

\* UninstallConflictedPackages(): Request whose action calls UninstallPackage
\* on every reference of _conflictedPackages
RequestUninstallConflictedPackages ==
    /\ pkgPc = "ready"
    /\ requested < MaxRequests
    /\ \E worked \in [DOMAIN conflictedPackages -> BOOLEAN] :
           LET paths  == ParentPaths(disk, pkgLocal)
               result == UninstallConflicted(disk, pkgLocal, paths, conflictedPackages,
                                             ConflictedRefs(pkgLocal, conflictedPackages),
                                             worked, 1)
           IN /\ disk' = result.disk
              /\ pkgLocal' = result.local
              /\ lastCall' = [op |-> "UninstallConflictedPackages",
                              conflicted |-> conflictedPackages,
                              local |-> [l \in DOMAIN pkgLocal |-> pkgLocal[l].name],
                              paths |-> paths,
                              worked |-> worked,
                              removed |-> Directories(disk) \ Directories(result.disk),
                              remaining |-> [l \in DOMAIN result.local |->
                                                 result.local[l].name]]
    /\ downloads' = {}
    /\ pkgPc' = AfterAction
    /\ requested' = requested + 1
    /\ UNCHANGED <<web, repositories, pkgRemote, missedPackages,
                   conflictedPackages, fetches, mutex, unguarded, cursor>>
    /\ UNCHANGED <<managerVars, downloaderVars, jitVars>>

\* Initialize, then UninstallConflictedPackages requests
ConflictNext ==
    \/ InitializeNext
    \/ RequestUninstallConflictedPackages
    \/ WaitForDownloads

ConflictSpec == ResolveInit /\ [][ConflictNext]_vars

(* ------------------------------ C37 ------------------------------------ *)
\* C37: UninstallConflictedPackages, when every RemoveFolder works, removes
\* from disk exactly the directories of the packages that were in
\* conflictedPackages when it was called and leaves every other local
\* package installed and listed.
UninstallsConflictedOnly ==
    (/\ lastCall.op = "UninstallConflictedPackages"
     /\ \A k \in DOMAIN lastCall.worked : lastCall.worked[k]) =>
        /\ lastCall.removed = {lastCall.paths[lastCall.conflicted[k]] :
                                   k \in DOMAIN lastCall.conflicted}
        /\ Range(lastCall.remaining) = Range(lastCall.local) \ Range(lastCall.conflicted)


(* ------------------ InstallAllPackages(manifestUrl) --------------------- *)
\* The call InstallAllPackages(manifestUrl, reinstall) and the callback of
\* its manifest request; lastCall holds the position of the call:
\* "outerWait" (WaitForAllRequests, line 499), "action" (the callback runs the
\* action of Request), "nestedWait" (the callback is in the
\* WaitForAllRequests of Request), "returned".
ManifestRequest == 1

InstallAllAt(position) == lastCall.op = "InstallAllPackages" /\ lastCall.pc = position

\* the requests whose callback has not returned
Outstanding == DOMAIN pending

\* what the manifest callback finds: a status other than 200, a body that
\* does not parse, no package left to install, or packages to install
ManifestBodies == {"parseError", "empty", "packages"}

\* InstallAllPackages(manifestUrl, reinstall), lines 459-467 and 499: nothing
\* for an empty URL; else CreateRequest for the manifest and
\* WaitForAllRequests
InstallAllPackages ==
    /\ lastCall = NoCall
    /\ \/ /\ lastCall' = [op |-> "InstallAllPackages", pc |-> "returned", body |-> "none"]
          /\ UNCHANGED downloaderVars
       \/ /\ \E outcome \in StartOutcomes : StartRequest(ManifestRequest, outcome)
          /\ lastCall' = [op |-> "InstallAllPackages", pc |-> "outerWait", body |-> "none"]
    /\ UNCHANGED <<managerVars, packageVars, jitVars>>

\* The poll of a WaitForAllRequests invokes the callback of the manifest
\* request (lines 467-496). With a status other than 200, a parse error or
\* nothing to install the callback returns at once; else it calls Request,
\* whose action may create download requests, and has not returned.
ManifestCallback ==
    /\ InstallAllAt("outerWait")
    /\ ManifestRequest \in Outstanding
    /\ pending[ManifestRequest].io # "callback"
    /\ LET statusCode == IF pending[ManifestRequest].state = "Complete"
                         THEN pending[ManifestRequest].statusCode ELSE "timeout"
       IN /\ calls' = Invoked(ManifestRequest, statusCode)
          /\ \E body \in ManifestBodies :
                 IF statusCode = "ok" /\ body = "packages"
                 THEN /\ pending' = Store(ManifestRequest, pending[ManifestRequest].state,
                                          statusCode, "callback")
                      /\ lastCall' = [lastCall EXCEPT !.pc = "action", !.body = body]
                 ELSE /\ pending' = Erase(ManifestRequest)
                      /\ lastCall' = [lastCall EXCEPT !.body =
                                          IF statusCode = "ok" THEN body ELSE "none"]
    /\ UNCHANGED <<managerVars, packageVars, jitVars>>

\* the action of Request inside the callback: InstallPackage(package) of an
\* entry of the manifest, whose DownloadPackage creates a request; up to
\* MaxDownloads requests beside the manifest request
InstallManifestPackage ==
    /\ InstallAllAt("action")
    /\ Len(calls) <= MaxDownloads
    /\ \E outcome \in StartOutcomes : StartRequest(InternalCreateRequest, outcome)
    /\ UNCHANGED <<managerVars, packageVars, callVars, jitVars>>

\* Request after its action: _httpDownloader->WaitForAllRequests(), called
\* from within the manifest callback
RequestWaits ==
    /\ InstallAllAt("action")
    /\ lastCall' = [lastCall EXCEPT !.pc = "nestedWait"]
    /\ UNCHANGED <<managerVars, packageVars, downloaderVars, jitVars>>

\* the poll of a WaitForAllRequests finishes another request
PollDownload(req) ==
    /\ InstallAllAt("outerWait") \/ InstallAllAt("nestedWait")
    /\ req # ManifestRequest
    /\ \/ CompleteRequest(req)
       \/ TimeoutRequest(req)

\* WaitForAllRequests returns when the callback of every outstanding request
\* has returned: the one of Request goes on to the rest of Request and the
\* callback returns to the poll, the one of line 499 returns to the caller
WaitForAllRequests ==
    /\ InstallAllAt("outerWait") \/ InstallAllAt("nestedWait")
    /\ Outstanding = {}
    /\ lastCall' = [lastCall EXCEPT !.pc = IF @ = "nestedWait" THEN "outerWait"
                                          ELSE "returned"]
    /\ UNCHANGED <<managerVars, packageVars, downloaderVars, jitVars>>

InstallAllNext ==
    \/ InstallAllPackages
    \/ \E req \in Requests : HTTPStatusCallback(req)
    \/ ManifestCallback
    \/ InstallManifestPackage
    \/ RequestWaits
    \/ \E req \in Requests : PollDownload(req)
    \/ WaitForAllRequests

InstallAllSpec == DownloaderInit /\ [][InstallAllNext]_vars

(* ------------------------------ C36 ------------------------------------ *)
\* C36: InstallAllPackages(manifestUrl, reinstall) always returns: the
\* WaitForAllRequests that Request runs from within the manifest callback
\* returns once no other request is outstanding, although the manifest
\* request, whose callback is the one waiting, is outstanding itself.
NestedWaitReturns ==
    (InstallAllAt("nestedWait") /\ Outstanding \ {ManifestRequest} = {}) =>
        ENABLED WaitForAllRequests

====
